---- MODULE Spec2Model ----
(***************************************************************************)
(* Model of the translation and storage core of wasmi_v1:                  *)
(*   - FunctionBuilder  (engine/func_builder/mod.rs): translation of the   *)
(*     structured Wasm control flow into a flat instruction stream;        *)
(*   - CodeMap          (engine2/code_map.rs): storage of function bodies; *)
(*   - DedupProviderSliceArena (engine2/provider.rs): deduplicated         *)
(*     storage of provider slices.                                         *)
(* Program counters, label indices and buffer indices are 0-based as in    *)
(* the source; the TLA+ sequences that hold them are 1-based.              *)
(* A fatal assertion (panic) aborts the process: the model records it in   *)
(* the flag "panicked" and keeps the builder as it was before the handler. *)
(***************************************************************************)
EXTENDS Integers, Sequences, FiniteSets, TLC

(***************************************************************************)
(* Bounds of the model.                                                    *)
(***************************************************************************)
MaxOps == 3
MaxBrDepth == 1
MaxTargets == 1
MaxParams == 1
MaxLocals == 1

(***************************************************************************)
(* Inputs.                                                                 *)
(***************************************************************************)
ValueTypes == {"I32", "I64"}

\* A block type is reduced to its parameter and result arity.
BlockTypes == {[params |-> 0, results |-> 0], [params |-> 0, results |-> 1],
               [params |-> 1, results |-> 0]}

FuncTypes == [params : 0..MaxParams, results : 0..1]

Depths == 0..MaxBrDepth

RECURSIVE SeqsUpTo(_, _)
SeqsUpTo(S, n) ==
    IF n = 0 THEN {<<>>}
    ELSE LET shorter == SeqsUpTo(S, n - 1)
         IN  shorter \cup {Append(s, x) : s \in {t \in shorter : Len(t) = n - 1}, x \in S}

VARIABLES
    func_type,       \* FunctionBuilder: type of the translated function (res, func)
    control_frames,  \* FunctionBuilder.control_frames
    value_stack,     \* FunctionBuilder.value_stack (types only)
    insts,           \* FunctionBuilder.inst_builder: the instruction stream
    labels,          \* FunctionBuilder.inst_builder: the labels
    locals,          \* FunctionBuilder.locals
    reachable,       \* FunctionBuilder.reachable
    panicked,        \* a fatal assertion fired
    nops,            \* history: number of operators translated so far
    last,            \* history: the operation translated last and what it saw
    nesting,         \* history: the nesting of the operators translated so far
    validation,      \* history: the validator's view of the operators so far
    resolve_calls,   \* history: number of resolve_label calls per label
    refs,            \* history: which instruction references which label
    cm_insts,        \* CodeMap.insts
    cm_panicked,     \* CodeMap: a fatal assertion fired
    cm_bodies,       \* history: the bodies allocated so far and their handles
    cm_last,         \* history: the CodeMap operation executed last
    ar_scratch,      \* DedupProviderSliceArena.scratch
    ar_dedup,        \* DedupProviderSliceArena.dedup
    ar_providers,    \* DedupProviderSliceArena.providers
    ar_panicked,     \* DedupProviderSliceArena: a fatal assertion fired
    ar_at,           \* history: an alloc applied to an arena of a given size
    ar_calls,        \* history: the alloc calls so far and their handles
    pv_last,         \* ExecProvider: the conversion executed last and its result
    it_lock,         \* Interpreter.inner: the holder of the lock
    it_pc,           \* Interpreter: the position of each holder in alloc_func_body
    it_frame,        \* Interpreter: the arguments and local variables of each call
    it_calls         \* history: the alloc_func_body calls that returned

fbVars == <<func_type, control_frames, value_stack, insts, labels, locals,
            reachable, panicked, nops, last, nesting, validation,
            resolve_calls, refs>>

cmVars == <<cm_insts, cm_panicked, cm_bodies, cm_last>>

arVars == <<ar_scratch, ar_dedup, ar_providers, ar_panicked, ar_calls, ar_at>>

pvVars == <<pv_last>>

itVars == <<it_lock, it_pc, it_frame, it_calls>>

vars == <<fbVars, cmVars, arVars, pvVars, itVars>>

(***************************************************************************)
(* Instructions.                                                           *)
(***************************************************************************)
\* Destination carried by a branch whose label is not resolved yet.
InvalidPc == -1

NoLabel == -1

Inst(op, arg) == [op |-> op, dst |-> 0, drop |-> 0, keep |-> 0, arg |-> arg]

BranchInst(op, dst, dk) == [op |-> op, dst |-> dst, drop |-> dk.drop, keep |-> dk.keep, arg |-> 0]

ReturnInst(dk) == [op |-> "Return", dst |-> 0, drop |-> dk.drop, keep |-> dk.keep, arg |-> 0]

DropKeep(drop, keep) == [drop |-> drop, keep |-> keep]

BranchOps == {"Br", "BrIfEqz", "BrIfNez", "BrTableTarget"}

(***************************************************************************)
(* Control frames.                                                         *)
(***************************************************************************)
BlockControlFrame(bt, end_label, height) ==
    [kind |-> "Block", okind |-> "Block", bt |-> bt, height |-> height,
     label |-> end_label, else_label |-> NoLabel]

LoopControlFrame(bt, header, height) ==
    [kind |-> "Loop", okind |-> "Loop", bt |-> bt, height |-> height,
     label |-> header, else_label |-> NoLabel]

IfControlFrame(bt, end_label, else_label, height) ==
    [kind |-> "If", okind |-> "If", bt |-> bt, height |-> height,
     label |-> end_label, else_label |-> else_label]

UnreachableControlFrame(okind, bt, height) ==
    [kind |-> "Unreachable", okind |-> okind, bt |-> bt, height |-> height,
     label |-> NoLabel, else_label |-> NoLabel]

NoFrame ==
    [kind |-> "None", okind |-> "None", bt |-> [params |-> 0, results |-> 0],
     height |-> 0, label |-> NoLabel, else_label |-> NoLabel]

\* ControlFrame::kind: the frame kind, for an unreachable frame its original kind.
FrameKind(frame) == frame.okind

\* ControlFrame::is_reachable
FrameIsReachable(frame) == frame.kind # "Unreachable"

\* ControlFlowStack::nth_back(depth); the caller checks depth < len.
NthBack(frames, depth) == frames[Len(frames) - depth]

NthBackPanics(frames, depth) == depth >= Len(frames)

\* ControlFlowStack::last, NoFrame standing for the panic on an empty stack.
LastFrame(frames) == IF frames = <<>> THEN NoFrame ELSE frames[Len(frames)]

PopFrame(frames) == SubSeq(frames, 1, Len(frames) - 1)

\* ControlFrame::branch_destination panics for an unreachable frame.
BranchDestinationPanics(frame) == frame.kind = "Unreachable"

BranchDestination(frame) == frame.label

\* ControlFrame::end_label: an unreachable frame has no label to hand out.
EndLabelPanics(frame) == frame.kind = "Unreachable"

(***************************************************************************)
(* Instruction builder: labels and relocations.                            *)
(***************************************************************************)
UnresolvedLabel == [pos |-> InvalidPc, relocs |-> <<>>]

IsResolved(lbls, l) == lbls[l + 1].pos # InvalidPc

RelocBr(pc) == [kind |-> "Br", inst_idx |-> pc, target_idx |-> 0]

RelocBrTable(pc, n) == [kind |-> "BrTable", inst_idx |-> pc, target_idx |-> n]

\* Position of the instruction a relocation patches.
RelocInst(reloc) ==
    IF reloc.kind = "Br" THEN reloc.inst_idx
    ELSE reloc.inst_idx + reloc.target_idx + 1

CurrentPc(is) == Len(is)

\* Mutation of RelocPc: the position is read after the branch was pushed.
RelocPcAfterPush(is) == CurrentPc(is) + 1

\* FunctionBuilder::try_resolve_label: the position handed to the relocation
\* provider is the position of the next instruction.
RelocPc(is) == CurrentPc(is)

\* InstructionsBuilder::try_resolve_label: the destination handed back.
TryResolveDst(lbls, l) == lbls[l + 1].pos

\* InstructionsBuilder::try_resolve_label: the labels afterwards.
TryResolveLabels(lbls, l, reloc) ==
    IF IsResolved(lbls, l) THEN lbls
    ELSE [lbls EXCEPT ![l + 1].relocs = Append(@, reloc)]

ResolveLabelPanics(lbls, l) == IsResolved(lbls, l)

\* InstructionsBuilder::resolve_label: the labels afterwards.
ResolveLabelLabels(lbls, l, pc) ==
    [lbls EXCEPT ![l + 1] = [pos |-> pc, relocs |-> <<>>]]

\* InstructionsBuilder::resolve_label: the instructions with every pending
\* relocation of the label patched.
ResolveLabelInsts(lbls, is, l, pc) ==
    LET relocs == lbls[l + 1].relocs
        hit(i) == \E k \in 1..Len(relocs) : RelocInst(relocs[k]) = i - 1
    IN  [i \in 1..Len(is) |-> IF hit(i) THEN [is[i] EXCEPT !.dst = pc] ELSE is[i]]

(***************************************************************************)
(* FunctionBuilder helpers.                                                *)
(***************************************************************************)
RECURSIVE Repeat(_, _)
Repeat(x, n) == IF n = 0 THEN <<>> ELSE Append(Repeat(x, n - 1), x)

\* compute_drop_keep: the number of values kept.
ComputeKeep(frame) ==
    IF FrameKind(frame) \in {"Block", "If"} THEN frame.bt.results
    ELSE frame.bt.params

\* compute_drop_keep: the two assertions.
ComputeDropKeepPanics(frames, depth, reach, current_height) ==
    \/ NthBackPanics(frames, depth)
    \/ /\ reach
       /\ LET frame == NthBack(frames, depth)
              origin_height == frame.height
          IN  \/ ~(origin_height < current_height)
              \/ ~(ComputeKeep(frame) < current_height - origin_height)

ComputeDropKeep(frames, depth, reach, current_height) ==
    LET frame == NthBack(frames, depth)
        keep == ComputeKeep(frame)
        drop == IF ~reach THEN 0 ELSE (current_height - frame.height) - keep
    IN  DropKeep(drop, keep)

AcquireTargetPanics(frames, depth, reach, current_height) ==
    \/ NthBackPanics(frames, depth)
    \/ BranchDestinationPanics(NthBack(frames, depth))
    \/ ComputeDropKeepPanics(frames, depth, reach, current_height)

(***************************************************************************)
(* History.                                                                *)
(***************************************************************************)
\* op: the operation; depths: its branch depths; height: the compile-time
\* height at which it computed its DropKeep (after its own pops); top: the
\* frame on top and arm: the innermost open region before the operation.
\* sig: the parameters and results of the operator's block type or callee;
\* pre_calls: the resolve_label calls made before the operation.
MkLast(op, depths, height) ==
    [op |-> op, depths |-> depths, height |-> height,
     sig |-> [params |-> 0, results |-> 0],
     reach |-> reachable, pre_height |-> Len(value_stack),
     pre_insts |-> Len(insts), pre_labels |-> Len(labels),
     pre_stack |-> value_stack, pre_calls |-> resolve_calls,
     top |-> LastFrame(control_frames),
     arm |-> IF nesting.arms = <<>> THEN "none"
             ELSE nesting.arms[Len(nesting.arms)]]

MkLastSig(op, depths, height, sig) ==
    [MkLast(op, depths, height) EXCEPT !.sig = sig]

\* The driver hands over the next operator unless a fatal assertion fired.
CanTranslate == ~panicked /\ nops < MaxOps

\* The nesting of the operator sequence after one more operator: the open
\* regions ("body" of a block or loop, "then" or "else" arm of an if) and
\* whether every else met a then arm and every end an open region.
NestingArmsAfter(op) ==
    LET arms == nesting.arms
        n == Len(arms)
    IN  IF op \in {"block", "loop"} THEN [nesting EXCEPT !.arms = Append(arms, "body")]
        ELSE IF op = "if" THEN [nesting EXCEPT !.arms = Append(arms, "then")]
        ELSE IF op = "else"
        THEN IF n > 0 /\ arms[n] = "then"
             THEN [nesting EXCEPT !.arms[n] = "else"]
             ELSE [nesting EXCEPT !.ok = FALSE]
        ELSE IF op = "end"
        THEN IF n > 0 THEN [nesting EXCEPT !.arms = SubSeq(arms, 1, n - 1)]
             ELSE [nesting EXCEPT !.ok = FALSE]
        ELSE nesting

\* The nesting, and the number of block, loop and if operators (opened) and of
\* end operators (ended) handed over so far.
NestingAfter(op) ==
    [NestingArmsAfter(op) EXCEPT
        !.opened = IF op \in {"block", "loop", "if"} THEN @ + 1 ELSE @,
        !.ended = IF op = "end" THEN @ + 1 ELSE @]

\* The validator that runs ahead of the translation (the "validated input" of
\* the translate_* operations): the operand height of the WebAssembly stack
\* machine, where the parameters are locals and not operands, and its control
\* frames with the height at entry and whether the rest of the frame is dead.
\* It counts the operands; the types of the operands are those of value_stack.
ValCtrl(kind, bt, base) == [kind |-> kind, bt |-> bt, base |-> base, dead |-> FALSE]

ValTop(v) == v.ctrls[Len(v.ctrls)]

ValPop(v, n) ==
    IF v.height - ValTop(v).base >= n THEN [v EXCEPT !.height = @ - n]
    ELSE IF ValTop(v).dead THEN [v EXCEPT !.height = ValTop(v).base]
    ELSE [v EXCEPT !.ok = FALSE]

ValPush(v, n) == [v EXCEPT !.height = @ + n]

ValDead(v) ==
    [v EXCEPT !.height = ValTop(v).base, !.ctrls[Len(v.ctrls)].dead = TRUE]

ValLabelArity(c) == IF c.kind = "loop" THEN c.bt.params ELSE c.bt.results

ValBranchOk(v, depth) ==
    /\ depth < Len(v.ctrls)
    /\ ValPop(v, ValLabelArity(v.ctrls[Len(v.ctrls) - depth])).ok

ValEnter(v, kind, bt) ==
    LET v1 == ValPop(v, bt.params)
    IN  [v1 EXCEPT !.ctrls = Append(@, ValCtrl(kind, bt, v1.height)),
                   !.height = @ + bt.params]

ValInvalid(v) == [v EXCEPT !.ok = FALSE]

\* The operators on memory and the comparisons, by the method that translates
\* them.
LoadOps == {"i32_load", "i64_load", "i64_load_i8"}

StoreOps == {"i32_store", "i64_store", "i64_store_i8"}

UnaryCmpOps == {"i32_eqz", "i64_eqz"}

BinaryCmpOps == {"i32_eq", "i64_eq", "u64_lt"}

ValidateAfter(v, lst) ==
    LET op == lst.op
        top == ValTop(v)
        n == Len(v.ctrls)
    IN  IF ~v.ok \/ v.ctrls = <<>> THEN ValInvalid(v)
        ELSE IF op \in {"const", "local_get"}
        THEN IF op = "local_get" /\ lst.depths[1] >= Len(locals) THEN ValInvalid(v)
             ELSE ValPush(v, 1)
        ELSE IF op \in {"drop", "local_set"}
        THEN IF op = "local_set" /\ lst.depths[1] >= Len(locals) THEN ValInvalid(v)
             ELSE ValPop(v, 1)
        ELSE IF op = "local_tee"
        THEN IF lst.depths[1] >= Len(locals) THEN ValInvalid(v)
             ELSE ValPush(ValPop(v, 1), 1)
        ELSE IF op = "select" THEN ValPush(ValPop(v, 3), 1)
        ELSE IF op \in LoadOps \cup UnaryCmpOps
        THEN IF op \in LoadOps /\ lst.depths[1] # 0 THEN ValInvalid(v)
             ELSE ValPush(ValPop(v, 1), 1)
        ELSE IF op \in StoreOps
        THEN IF lst.depths[1] # 0 THEN ValInvalid(v) ELSE ValPop(v, 2)
        ELSE IF op \in BinaryCmpOps THEN ValPush(ValPop(v, 2), 1)
        ELSE IF op = "call" THEN ValPush(ValPop(v, lst.sig.params), lst.sig.results)
        ELSE IF op = "call_indirect"
        THEN IF lst.depths[1] # 0 THEN ValInvalid(v)
             ELSE ValPush(ValPop(ValPop(v, 1), lst.sig.params), lst.sig.results)
        ELSE IF op \in {"block", "loop"} THEN ValEnter(v, op, lst.sig)
        ELSE IF op = "if" THEN ValEnter(ValPop(v, 1), op, lst.sig)
        ELSE IF op = "else"
        THEN LET v1 == ValPop(v, top.bt.results)
             IN  IF top.kind # "if" \/ ~v1.ok \/ v1.height # top.base THEN ValInvalid(v)
                 ELSE [v1 EXCEPT !.ctrls[n] = ValCtrl("else", top.bt, top.base),
                                 !.height = top.base + top.bt.params]
        ELSE IF op = "end"
        THEN LET v1 == ValPop(v, top.bt.results)
             IN  IF ~v1.ok \/ v1.height # top.base THEN ValInvalid(v)
                 ELSE IF top.kind = "if" /\ top.bt.params # top.bt.results
                 THEN ValInvalid(v)
                 ELSE [v1 EXCEPT !.ctrls = SubSeq(@, 1, n - 1),
                                 !.height = top.base + top.bt.results]
        ELSE IF op = "br"
        THEN IF ValBranchOk(v, lst.depths[1]) THEN ValDead(v) ELSE ValInvalid(v)
        ELSE IF op = "br_if"
        THEN LET v1 == ValPop(v, 1)
             IN  IF v1.ok /\ ValBranchOk(v1, lst.depths[1])
                 THEN LET arity == ValLabelArity(v1.ctrls[n - lst.depths[1]])
                      IN  ValPush(ValPop(v1, arity), arity)
                 ELSE ValInvalid(v)
        ELSE IF op = "br_table"
        THEN LET v1 == ValPop(v, 1)
                 arms == lst.depths
             IN  IF /\ v1.ok
                    /\ \A k \in 1..Len(arms) : ValBranchOk(v1, arms[k])
                    /\ \A j, k \in 1..Len(arms) :
                          ValLabelArity(v1.ctrls[n - arms[j]])
                              = ValLabelArity(v1.ctrls[n - arms[k]])
                 THEN ValDead(v1) ELSE ValInvalid(v)
        ELSE IF op = "return"
        THEN IF ValPop(v, func_type.results).ok THEN ValDead(v) ELSE ValInvalid(v)
        ELSE IF op = "unreachable" THEN ValDead(v)
        ELSE ValInvalid(v)

Bump(rc, l) == [rc EXCEPT ![l + 1] = @ + 1]

\* A fatal assertion; rc counts the resolve_label calls made before it.
Panic(lst, rc) ==
    /\ panicked' = TRUE
    /\ last' = lst
    /\ nops' = nops + 1
    /\ nesting' = NestingAfter(lst.op)
    /\ validation' = ValidateAfter(validation, lst)
    /\ resolve_calls' = rc
    /\ UNCHANGED <<func_type, control_frames, value_stack, insts, labels, locals,
                   reachable, refs>>
    /\ UNCHANGED <<cmVars, arVars, pvVars, itVars>>

\* translate_if_reachable with reachable = false: nothing happens.
Skip(lst) ==
    /\ last' = lst
    /\ nops' = nops + 1
    /\ nesting' = NestingAfter(lst.op)
    /\ validation' = ValidateAfter(validation, lst)
    /\ UNCHANGED <<func_type, control_frames, value_stack, insts, labels, locals,
                   reachable, panicked, resolve_calls, refs>>
    /\ UNCHANGED <<cmVars, arVars, pvVars, itVars>>

Commit(lst, frames2, vs2, is2, lb2, reach2, rc2, refs2) ==
    /\ last' = lst
    /\ nops' = nops + 1
    /\ nesting' = NestingAfter(lst.op)
    /\ validation' = ValidateAfter(validation, lst)
    /\ control_frames' = frames2
    /\ value_stack' = vs2
    /\ insts' = is2
    /\ labels' = lb2
    /\ reachable' = reach2
    /\ resolve_calls' = rc2
    /\ refs' = refs2
    /\ UNCHANGED <<func_type, locals, panicked>>
    /\ UNCHANGED <<cmVars, arVars, pvVars, itVars>>

Ref(l, idx) == [label |-> l, idx |-> idx]

\* ValueStack
Pop1Panics(vs) == vs = <<>>

Pop1(vs) == SubSeq(vs, 1, Len(vs) - 1)

ShrinkToPanics(vs, height) == height > Len(vs)

ShrinkTo(vs, height) == SubSeq(vs, 1, height)

(***************************************************************************)
(* FunctionBuilder::new                                                    *)
(***************************************************************************)
\* ops: the operators the driver has handed over, counted against MaxOps.
FbInitFrom(types, ops) ==
    /\ func_type \in types
    /\ control_frames = <<BlockControlFrame(func_type, 0, 0)>>
    /\ labels = <<UnresolvedLabel>>
    /\ value_stack = Repeat("I32", func_type.params)
    /\ locals = Repeat("I32", func_type.params)
    /\ insts = <<>>
    /\ reachable = TRUE
    /\ panicked = FALSE
    /\ last = [op |-> "new", depths |-> <<>>, height |-> 0, reach |-> TRUE,
               pre_height |-> 0, pre_insts |-> 0, pre_labels |-> 0,
               sig |-> [params |-> 0, results |-> 0],
               pre_stack |-> <<>>, pre_calls |-> <<>>,
               top |-> NoFrame, arm |-> "none"]
    /\ nops = ops
    /\ nesting = [arms |-> <<"body">>, ok |-> TRUE, opened |-> 0, ended |-> 0]
    /\ validation = [ok |-> TRUE, height |-> 0,
                     ctrls |-> <<ValCtrl("func",
                                         [params |-> 0, results |-> func_type.results],
                                         0)>>]
    /\ resolve_calls = <<0>>
    /\ refs = <<>>

FbInit(types) == FbInitFrom(types, 0)

(***************************************************************************)
(* FunctionBuilder: the translate_* operations.                            *)
(***************************************************************************)
\* translate_locals: the local declarations precede the operators of the body.
TranslateLocals(amount, value_type) ==
    /\ ~panicked
    /\ nops = 0
    /\ last.op = "new"
    /\ locals' = locals \o Repeat(value_type, amount)
    /\ last' = MkLast("locals", <<>>, Len(value_stack))
    /\ UNCHANGED <<func_type, control_frames, value_stack, insts, labels,
                   reachable, panicked, nops, nesting, validation,
                   resolve_calls, refs>>
    /\ UNCHANGED <<cmVars, arVars, pvVars, itVars>>

TranslateUnreachable ==
    /\ CanTranslate
    /\ LET lst == MkLast("unreachable", <<>>, Len(value_stack))
       IN  IF ~reachable THEN Skip(lst)
           ELSE Commit(lst, control_frames, value_stack,
                       Append(insts, Inst("Unreachable", 0)), labels, FALSE,
                       resolve_calls, refs)

\* Mutation of TranslateBlock: a block in dead code pushes a Block frame with a
\* label, as in reachable code.
TranslateBlockLabelledInDeadCode(block_type) ==
    /\ CanTranslate
    /\ LET lst == MkLastSig("block", <<>>, Len(value_stack), block_type)
           stack_height == Len(value_stack)
           end_label == Len(labels)
       IN  Commit(lst,
                  Append(control_frames,
                         BlockControlFrame(block_type, end_label, stack_height)),
                  value_stack, insts, Append(labels, UnresolvedLabel), reachable,
                  Append(resolve_calls, 0), refs)

\* Mutation of TranslateBlock: a block in dead code pushes no frame.
TranslateBlockInertInDeadCode(block_type) ==
    /\ CanTranslate
    /\ LET lst == MkLastSig("block", <<>>, Len(value_stack), block_type)
           stack_height == Len(value_stack)
           end_label == Len(labels)
       IN  IF reachable
           THEN Commit(lst,
                       Append(control_frames,
                              BlockControlFrame(block_type, end_label, stack_height)),
                       value_stack, insts, Append(labels, UnresolvedLabel), reachable,
                       Append(resolve_calls, 0), refs)
              ELSE Skip(lst)

TranslateBlock(block_type) ==
    /\ CanTranslate
    /\ LET lst == MkLastSig("block", <<>>, Len(value_stack), block_type)
           stack_height == Len(value_stack)
           end_label == Len(labels)
       IN  IF reachable
           THEN Commit(lst,
                       Append(control_frames,
                              BlockControlFrame(block_type, end_label, stack_height)),
                       value_stack, insts, Append(labels, UnresolvedLabel), reachable,
                       Append(resolve_calls, 0), refs)
           ELSE Commit(lst,
                       Append(control_frames,
                              UnreachableControlFrame("Block", block_type, stack_height)),
                       value_stack, insts, labels, reachable, resolve_calls, refs)

\* Mutation of TranslateLoop: the header label is left unresolved, as the end
\* label of a block is.
TranslateLoopUnresolved(block_type) ==
    /\ CanTranslate
    /\ LET lst == MkLastSig("loop", <<>>, Len(value_stack), block_type)
           stack_height == Len(value_stack)
           header == Len(labels)
       IN  IF reachable
           THEN Commit(lst,
                       Append(control_frames,
                              LoopControlFrame(block_type, header, stack_height)),
                       value_stack, insts, Append(labels, UnresolvedLabel),
                       reachable, Append(resolve_calls, 0), refs)
           ELSE Commit(lst,
                       Append(control_frames,
                              UnreachableControlFrame("Loop", block_type, stack_height)),
                       value_stack, insts, labels, reachable, resolve_calls, refs)

TranslateLoop(block_type) ==
    /\ CanTranslate
    /\ LET lst == MkLastSig("loop", <<>>, Len(value_stack), block_type)
           stack_height == Len(value_stack)
           header == Len(labels)
           lb1 == Append(labels, UnresolvedLabel)
           pc == CurrentPc(insts)
       IN  IF reachable
           THEN Commit(lst,
                       Append(control_frames,
                              LoopControlFrame(block_type, header, stack_height)),
                       value_stack,
                       ResolveLabelInsts(lb1, insts, header, pc),
                       ResolveLabelLabels(lb1, header, pc),
                       reachable, Append(resolve_calls, 1), refs)
           ELSE Commit(lst,
                       Append(control_frames,
                              UnreachableControlFrame("Loop", block_type, stack_height)),
                       value_stack, insts, labels, reachable, resolve_calls, refs)

TranslateIf(block_type) ==
    /\ CanTranslate
    /\ LET lst == MkLastSig("if", <<>>, Len(value_stack) - 1, block_type)
       IN  IF Pop1Panics(value_stack) THEN Panic(lst, resolve_calls)
           ELSE
           LET vs1 == Pop1(value_stack)
               stack_height == Len(vs1)
               else_label == Len(labels)
               end_label == Len(labels) + 1
               lb1 == Append(Append(labels, UnresolvedLabel), UnresolvedLabel)
               pc == CurrentPc(insts)
               dst_pc == TryResolveDst(lb1, else_label)
           IN  IF reachable
               THEN Commit(lst,
                           Append(control_frames,
                                  IfControlFrame(block_type, end_label, else_label,
                                                 stack_height)),
                           vs1,
                           Append(insts, BranchInst("BrIfEqz", dst_pc, DropKeep(0, 0))),
                           TryResolveLabels(lb1, else_label, RelocBr(RelocPc(insts))),
                           reachable,
                           Append(Append(resolve_calls, 0), 0),
                           Append(refs, Ref(else_label, pc)))
               ELSE Commit(lst,
                           Append(control_frames,
                                  UnreachableControlFrame("If", block_type, stack_height)),
                           vs1, insts, labels, reachable, resolve_calls, refs)

TranslateElse ==
    /\ CanTranslate
    /\ LET lst == MkLast("else", <<>>, Len(value_stack))
           frame == LastFrame(control_frames)
       IN  IF control_frames = <<>> THEN Panic(lst, resolve_calls)
           ELSE IF reachable
           THEN IF frame.kind # "If" THEN Panic(lst, resolve_calls)
                ELSE
                LET pc == CurrentPc(insts)
                    dst_pc == TryResolveDst(labels, frame.label)
                    lb1 == TryResolveLabels(labels, frame.label, RelocBr(RelocPc(insts)))
                    is1 == Append(insts, BranchInst("Br", dst_pc, DropKeep(0, 0)))
                    rc1 == Bump(resolve_calls, frame.else_label)
                IN  IF ResolveLabelPanics(lb1, frame.else_label) THEN Panic(lst, rc1)
                    ELSE Commit(lst, control_frames, value_stack,
                                ResolveLabelInsts(lb1, is1, frame.else_label, CurrentPc(is1)),
                                ResolveLabelLabels(lb1, frame.else_label, CurrentPc(is1)),
                                reachable, rc1, Append(refs, Ref(frame.label, pc)))
           ELSE IF frame.kind = "Unreachable" /\ FrameKind(frame) = "If"
                THEN Skip(lst)
                ELSE Panic(lst, resolve_calls)

\* Mutation of EndHeight: the results of the frame stay on the stack.
EndHeightWithResults(frame) == frame.height + frame.bt.results

\* translate_end: the height the value stack is shrunk to.
EndHeight(frame) == frame.height

\* Mutation of TranslateEnd: the Return is emitted for every frame, not only
\* for the frame of the function body.
TranslateEndAlwaysReturns ==
    /\ CanTranslate
    /\ LET lst == MkLast("end", <<>>, Len(value_stack))
       IN  IF control_frames = <<>> THEN Panic(lst, resolve_calls)
           ELSE
           LET frame == LastFrame(control_frames)
               frames1 == PopFrame(control_frames)
               pc == CurrentPc(insts)
               isIf == frame.kind = "If"
               p1 == isIf /\ ResolveLabelPanics(labels, frame.else_label)
               rc1 == IF isIf THEN Bump(resolve_calls, frame.else_label)
                      ELSE resolve_calls
               lb1 == IF isIf /\ ~p1
                      THEN ResolveLabelLabels(labels, frame.else_label, pc) ELSE labels
               is1 == IF isIf /\ ~p1
                      THEN ResolveLabelInsts(labels, insts, frame.else_label, pc) ELSE insts
               hasEnd == FrameKind(frame) # "Loop"
               p2 == hasEnd /\ (EndLabelPanics(frame) \/ ResolveLabelPanics(lb1, frame.label))
               rc2 == IF hasEnd /\ ~EndLabelPanics(frame) THEN Bump(rc1, frame.label)
                      ELSE rc1
               lb2 == IF hasEnd /\ ~p2
                      THEN ResolveLabelLabels(lb1, frame.label, pc) ELSE lb1
               is2 == IF hasEnd /\ ~p2
                      THEN ResolveLabelInsts(lb1, is1, frame.label, pc) ELSE is1
               is3 == IF reachable
                      THEN Append(is2, ReturnInst(DropKeep(0, 0))) ELSE is2
               reach3 == IF reachable THEN reachable ELSE FrameIsReachable(frame)
           IN  IF p1 THEN Panic(lst, rc1)
               ELSE IF p2 THEN Panic(lst, rc2)
               ELSE IF ShrinkToPanics(value_stack, EndHeight(frame)) THEN Panic(lst, rc2)
               ELSE Commit(lst, frames1, ShrinkTo(value_stack, EndHeight(frame)),
                           is3, lb2, reach3, rc2, refs)

TranslateEnd ==
    /\ CanTranslate
    /\ LET lst == MkLast("end", <<>>, Len(value_stack))
       IN  IF control_frames = <<>> THEN Panic(lst, resolve_calls)
           ELSE
           LET frame == LastFrame(control_frames)
               frames1 == PopFrame(control_frames)
               pc == CurrentPc(insts)
               isIf == frame.kind = "If"
               p1 == isIf /\ ResolveLabelPanics(labels, frame.else_label)
               rc1 == IF isIf THEN Bump(resolve_calls, frame.else_label)
                      ELSE resolve_calls
               lb1 == IF isIf /\ ~p1
                      THEN ResolveLabelLabels(labels, frame.else_label, pc) ELSE labels
               is1 == IF isIf /\ ~p1
                      THEN ResolveLabelInsts(labels, insts, frame.else_label, pc) ELSE insts
               hasEnd == FrameKind(frame) # "Loop"
               p2 == hasEnd /\ (EndLabelPanics(frame) \/ ResolveLabelPanics(lb1, frame.label))
               rc2 == IF hasEnd /\ ~EndLabelPanics(frame) THEN Bump(rc1, frame.label)
                      ELSE rc1
               lb2 == IF hasEnd /\ ~p2
                      THEN ResolveLabelLabels(lb1, frame.label, pc) ELSE lb1
               is2 == IF hasEnd /\ ~p2
                      THEN ResolveLabelInsts(lb1, is1, frame.label, pc) ELSE is1
               is3 == IF reachable /\ frames1 = <<>>
                      THEN Append(is2, ReturnInst(DropKeep(0, 0))) ELSE is2
               reach3 == IF reachable THEN reachable ELSE FrameIsReachable(frame)
           IN  IF p1 THEN Panic(lst, rc1)
               ELSE IF p2 THEN Panic(lst, rc2)
               ELSE IF ShrinkToPanics(value_stack, EndHeight(frame)) THEN Panic(lst, rc2)
               ELSE Commit(lst, frames1, ShrinkTo(value_stack, EndHeight(frame)),
                           is3, lb2, reach3, rc2, refs)

TranslateBr(relative_depth) ==
    /\ CanTranslate
    /\ LET height == Len(value_stack)
           lst == MkLast("br", <<relative_depth>>, height)
       IN  IF ~reachable THEN Skip(lst)
           ELSE IF AcquireTargetPanics(control_frames, relative_depth, reachable, height)
           THEN Panic(lst, resolve_calls)
           ELSE
           LET end_label == BranchDestination(NthBack(control_frames, relative_depth))
               drop_keep == ComputeDropKeep(control_frames, relative_depth, reachable, height)
               pc == CurrentPc(insts)
               dst_pc == TryResolveDst(labels, end_label)
           IN  Commit(lst, control_frames, value_stack,
                      Append(insts, BranchInst("Br", dst_pc, drop_keep)),
                      TryResolveLabels(labels, end_label, RelocBr(RelocPc(insts))),
                      FALSE, resolve_calls, Append(refs, Ref(end_label, pc)))

\* Mutation of TranslateBrIf: reachable is cleared as in translate_br.
TranslateBrIfClearsReachable(relative_depth) ==
    /\ CanTranslate
    /\ LET height == Len(value_stack) - 1
           lst == MkLast("br_if", <<relative_depth>>, height)
       IN  IF ~reachable THEN Skip(lst)
           ELSE IF Pop1Panics(value_stack) THEN Panic(lst, resolve_calls)
           ELSE IF AcquireTargetPanics(control_frames, relative_depth, reachable, height)
           THEN Panic(lst, resolve_calls)
           ELSE
           LET end_label == BranchDestination(NthBack(control_frames, relative_depth))
               drop_keep == ComputeDropKeep(control_frames, relative_depth, reachable, height)
               pc == CurrentPc(insts)
               dst_pc == TryResolveDst(labels, end_label)
           IN  Commit(lst, control_frames, Pop1(value_stack),
                      Append(insts, BranchInst("BrIfNez", dst_pc, drop_keep)),
                      TryResolveLabels(labels, end_label, RelocBr(RelocPc(insts))),
                      FALSE, resolve_calls, Append(refs, Ref(end_label, pc)))

TranslateBrIf(relative_depth) ==
    /\ CanTranslate
    /\ LET height == Len(value_stack) - 1
           lst == MkLast("br_if", <<relative_depth>>, height)
       IN  IF ~reachable THEN Skip(lst)
           ELSE IF Pop1Panics(value_stack) THEN Panic(lst, resolve_calls)
           ELSE IF AcquireTargetPanics(control_frames, relative_depth, reachable, height)
           THEN Panic(lst, resolve_calls)
           ELSE
           LET end_label == BranchDestination(NthBack(control_frames, relative_depth))
               drop_keep == ComputeDropKeep(control_frames, relative_depth, reachable, height)
               pc == CurrentPc(insts)
               dst_pc == TryResolveDst(labels, end_label)
           IN  Commit(lst, control_frames, Pop1(value_stack),
                      Append(insts, BranchInst("BrIfNez", dst_pc, drop_keep)),
                      TryResolveLabels(labels, end_label, RelocBr(RelocPc(insts))),
                      reachable, resolve_calls, Append(refs, Ref(end_label, pc)))

\* Mutation of BrTableLabels: every relocation carries the number of the
\* first arm.
RECURSIVE BrTableLabelsUnnumbered(_, _, _, _, _)
BrTableLabelsUnnumbered(lbls, frames, arms, n, pc) ==
    IF n >= Len(arms) THEN lbls
    ELSE BrTableLabelsUnnumbered(
             TryResolveLabels(lbls, BranchDestination(NthBack(frames, arms[n + 1])),
                              RelocBrTable(pc, 0)),
             frames, arms, n + 1, pc)

\* compute_target of translate_br_table applied to the arms from arm n on:
\* the labels after each arm has tried to resolve its label.
RECURSIVE BrTableLabels(_, _, _, _, _)
BrTableLabels(lbls, frames, arms, n, pc) ==
    IF n >= Len(arms) THEN lbls
    ELSE BrTableLabels(
             TryResolveLabels(lbls, BranchDestination(NthBack(frames, arms[n + 1])),
                              RelocBrTable(pc, n)),
             frames, arms, n + 1, pc)

\* The BrTableTarget record of arm n.
BrTableTarget(lbls, frames, arms, n, reach, height) ==
    BranchInst("BrTableTarget",
               TryResolveDst(lbls, BranchDestination(NthBack(frames, arms[n + 1]))),
               ComputeDropKeep(frames, arms[n + 1], reach, height))

TranslateBrTable(default, targets) ==
    /\ CanTranslate
    /\ LET height == Len(value_stack) - 1
           arms == Append(targets, default)
           lst == MkLast("br_table", arms, height)
       IN  IF ~reachable THEN Skip(lst)
           ELSE IF Pop1Panics(value_stack) THEN Panic(lst, resolve_calls)
           ELSE IF \E n \in 1..Len(arms) :
                       AcquireTargetPanics(control_frames, arms[n], reachable, height)
           THEN Panic(lst, resolve_calls)
           ELSE
           LET pc == CurrentPc(insts)
               len_targets == Len(targets)
               records == [n \in 1..Len(arms) |->
                              BrTableTarget(labels, control_frames, arms, n - 1,
                                            reachable, height)]
               newrefs == [n \in 1..Len(arms) |->
                              Ref(BranchDestination(NthBack(control_frames, arms[n])),
                                  pc + n)]
           IN  Commit(lst, control_frames, Pop1(value_stack),
                      Append(insts, Inst("BrTable", len_targets)) \o records,
                      BrTableLabels(labels, control_frames, arms, 0, RelocPc(insts)),
                      FALSE, resolve_calls, refs \o newrefs)

\* drop_keep_return
DropKeepReturnPanics(frames, reach, height) ==
    \/ frames = <<>>
    \/ ComputeDropKeepPanics(frames, Len(frames) - 1, reach, height)

DropKeepReturn(frames, reach, height, len_locals, len_params) ==
    LET max_depth == Len(frames) - 1
        drop_keep == ComputeDropKeep(frames, max_depth, reach, height)
    IN  DropKeep(drop_keep.drop + len_locals + len_params, drop_keep.keep)

TranslateReturn ==
    /\ CanTranslate
    /\ LET height == Len(value_stack)
           lst == MkLast("return", <<>>, height)
       IN  IF ~reachable THEN Skip(lst)
           ELSE IF DropKeepReturnPanics(control_frames, reachable, height)
           THEN Panic(lst, resolve_calls)
           ELSE Commit(lst, control_frames, value_stack,
                       Append(insts,
                              ReturnInst(DropKeepReturn(control_frames, reachable, height,
                                                        Len(locals), func_type.params))),
                       labels, FALSE, resolve_calls, refs)

\* translate_i32_const, by way of translate_const
TranslateI32Const ==
    /\ CanTranslate
    /\ LET lst == MkLast("const", <<>>, Len(value_stack))
       IN  IF ~reachable THEN Skip(lst)
           ELSE Commit(lst, control_frames, Append(value_stack, "I32"),
                       Append(insts, Inst("Const", 0)), labels, reachable,
                       resolve_calls, refs)

TranslateDrop ==
    /\ CanTranslate
    /\ LET lst == MkLast("drop", <<>>, Len(value_stack))
       IN  IF ~reachable THEN Skip(lst)
           ELSE IF Pop1Panics(value_stack) THEN Panic(lst, resolve_calls)
           ELSE Commit(lst, control_frames, Pop1(value_stack), insts, labels,
                       reachable, resolve_calls, refs)

\* translate_call: the callee's parameters and results leave the compile-time
\* value stack as it is.
TranslateCall(callee) ==
    /\ CanTranslate
    /\ LET lst == MkLastSig("call", <<>>, Len(value_stack), callee)
       IN  IF ~reachable THEN Skip(lst)
           ELSE Commit(lst, control_frames, value_stack,
                       Append(insts, Inst("Call", 0)), labels, reachable,
                       resolve_calls, refs)

\* translate_call_indirect: only the table index operand is popped.
TranslateCallIndirect(callee, table_idx) ==
    /\ CanTranslate
    /\ LET lst == MkLastSig("call_indirect", <<table_idx>>, Len(value_stack) - 1, callee)
       IN  IF ~reachable THEN Skip(lst)
           ELSE IF table_idx # 0 THEN Panic(lst, resolve_calls)
           ELSE IF Pop1Panics(value_stack) THEN Panic(lst, resolve_calls)
           ELSE Commit(lst, control_frames, Pop1(value_stack),
                       Append(insts, Inst("CallIndirect", 0)), labels, reachable,
                       resolve_calls, refs)

\* relative_local_depth: the checked subtraction underflows.
RelativeLocalDepthPanics(height, len_locals, len_params, local_idx) ==
    height + len_params + len_locals - local_idx < 0

RelativeLocalDepth(height, len_locals, len_params, local_idx) ==
    height + len_params + len_locals - local_idx

TranslateLocalGet(local_idx) ==
    /\ CanTranslate
    /\ LET height == Len(value_stack)
           lst == MkLast("local_get", <<local_idx>>, height)
       IN  IF ~reachable THEN Skip(lst)
           ELSE IF RelativeLocalDepthPanics(height, Len(locals), func_type.params, local_idx)
           THEN Panic(lst, resolve_calls)
           ELSE IF local_idx >= Len(locals) THEN Panic(lst, resolve_calls)
           ELSE Commit(lst, control_frames, Append(value_stack, locals[local_idx + 1]),
                       Append(insts,
                              Inst("GetLocal",
                                   RelativeLocalDepth(height, Len(locals),
                                                      func_type.params, local_idx))),
                       labels, reachable, resolve_calls, refs)

\* ValueStack::top
TopPanics(vs) == vs = <<>>

Top(vs) == vs[Len(vs)]

\* debug_assert_eq!: checked by a build with debug assertions, skipped by a
\* release build.
DebugAssertEqPanics(debug_assertions, actual, expected) ==
    debug_assertions /\ actual # expected

TranslateLocalSet(local_idx, debug_assertions) ==
    /\ CanTranslate
    /\ LET height == Len(value_stack)
           lst == MkLast("local_set", <<local_idx>>, height)
       IN  IF ~reachable THEN Skip(lst)
           ELSE IF RelativeLocalDepthPanics(height, Len(locals), func_type.params, local_idx)
           THEN Panic(lst, resolve_calls)
           ELSE IF local_idx >= Len(locals) THEN Panic(lst, resolve_calls)
           ELSE IF Pop1Panics(value_stack) THEN Panic(lst, resolve_calls)
           ELSE IF DebugAssertEqPanics(debug_assertions, Top(value_stack),
                                       locals[local_idx + 1])
           THEN Panic(lst, resolve_calls)
           ELSE Commit(lst, control_frames, Pop1(value_stack),
                       Append(insts,
                              Inst("SetLocal",
                                   RelativeLocalDepth(height, Len(locals),
                                                      func_type.params, local_idx))),
                       labels, reachable, resolve_calls, refs)

TranslateLocalTee(local_idx, debug_assertions) ==
    /\ CanTranslate
    /\ LET height == Len(value_stack)
           lst == MkLast("local_tee", <<local_idx>>, height)
       IN  IF ~reachable THEN Skip(lst)
           ELSE IF RelativeLocalDepthPanics(height, Len(locals), func_type.params, local_idx)
           THEN Panic(lst, resolve_calls)
           ELSE IF local_idx >= Len(locals) THEN Panic(lst, resolve_calls)
           ELSE IF TopPanics(value_stack) THEN Panic(lst, resolve_calls)
           ELSE IF DebugAssertEqPanics(debug_assertions, Top(value_stack),
                                       locals[local_idx + 1])
           THEN Panic(lst, resolve_calls)
           ELSE Commit(lst, control_frames, value_stack,
                       Append(insts,
                              Inst("TeeLocal",
                                   RelativeLocalDepth(height, Len(locals),
                                                      func_type.params, local_idx))),
                       labels, reachable, resolve_calls, refs)

(***************************************************************************)
(* Operators on values: select, constants, memory accesses, comparisons.   *)
(***************************************************************************)
\* ValueStack::pop2 and ValueStack::pop3
Pop2Panics(vs) == Len(vs) < 2

Pop2(vs) == SubSeq(vs, 1, Len(vs) - 2)

Pop3Panics(vs) == Len(vs) < 3

Pop3(vs) == SubSeq(vs, 1, Len(vs) - 3)

\* The entry of the stack that is n entries below the top (0: the top).
Peek(vs, n) == vs[Len(vs) - n]

\* translate_select: (v0, v1, selector) are the three entries on top, the
\* selector being the topmost.
TranslateSelect(debug_assertions) ==
    /\ CanTranslate
    /\ LET lst == MkLast("select", <<>>, Len(value_stack))
       IN  IF ~reachable THEN Skip(lst)
           ELSE IF Pop3Panics(value_stack) THEN Panic(lst, resolve_calls)
           ELSE IF DebugAssertEqPanics(debug_assertions, Peek(value_stack, 0), "I32")
           THEN Panic(lst, resolve_calls)
           ELSE IF DebugAssertEqPanics(debug_assertions, Peek(value_stack, 2),
                                       Peek(value_stack, 1))
           THEN Panic(lst, resolve_calls)
           ELSE Commit(lst, control_frames,
                       Append(Pop3(value_stack), Peek(value_stack, 2)),
                       Append(insts, Inst("Select", 0)), labels, reachable,
                       resolve_calls, refs)

\* translate_i64_const, by way of translate_const
TranslateI64Const ==
    /\ CanTranslate
    /\ LET lst == MkLast("const", <<>>, Len(value_stack))
       IN  IF ~reachable THEN Skip(lst)
           ELSE Commit(lst, control_frames, Append(value_stack, "I64"),
                       Append(insts, Inst("Const", 0)), labels, reachable,
                       resolve_calls, refs)

\* FunctionBuilder::DEFAULT_MEMORY_INDEX
DefaultMemoryIndex == 0

MemoryIndices == {0, 1}

\* translate_load; operator names the method that was called, for the history.
TranslateLoad(operator, memory_idx, loaded_type, make_inst, debug_assertions) ==
    /\ CanTranslate
    /\ LET lst == MkLast(operator, <<memory_idx>>, Len(value_stack))
       IN  IF ~reachable THEN Skip(lst)
           ELSE IF DebugAssertEqPanics(debug_assertions, memory_idx, DefaultMemoryIndex)
           THEN Panic(lst, resolve_calls)
           ELSE IF Pop1Panics(value_stack) THEN Panic(lst, resolve_calls)
           ELSE IF DebugAssertEqPanics(debug_assertions, Peek(value_stack, 0), "I32")
           THEN Panic(lst, resolve_calls)
           ELSE Commit(lst, control_frames, Append(Pop1(value_stack), loaded_type),
                       Append(insts, Inst(make_inst, 0)), labels, reachable,
                       resolve_calls, refs)

TranslateI32Load(memory_idx, debug_assertions) ==
    TranslateLoad("i32_load", memory_idx, "I32", "I32Load", debug_assertions)

TranslateI64Load(memory_idx, debug_assertions) ==
    TranslateLoad("i64_load", memory_idx, "I64", "I64Load", debug_assertions)

TranslateI64LoadI8(memory_idx, debug_assertions) ==
    TranslateLoad("i64_load_i8", memory_idx, "I64", "I64Load8S", debug_assertions)

\* translate_store: the first pop1 takes the entry on top as the pointer, the
\* second the entry beneath it as the value that is compared with stored_value.
TranslateStore(operator, memory_idx, stored_value, make_inst, debug_assertions) ==
    /\ CanTranslate
    /\ LET lst == MkLast(operator, <<memory_idx>>, Len(value_stack))
       IN  IF ~reachable THEN Skip(lst)
           ELSE IF DebugAssertEqPanics(debug_assertions, memory_idx, DefaultMemoryIndex)
           THEN Panic(lst, resolve_calls)
           ELSE IF Pop1Panics(value_stack) THEN Panic(lst, resolve_calls)
           ELSE IF DebugAssertEqPanics(debug_assertions, Peek(value_stack, 0), "I32")
           THEN Panic(lst, resolve_calls)
           ELSE IF Pop1Panics(Pop1(value_stack)) THEN Panic(lst, resolve_calls)
           ELSE IF stored_value # Peek(value_stack, 1) THEN Panic(lst, resolve_calls)
           ELSE Commit(lst, control_frames, Pop1(Pop1(value_stack)),
                       Append(insts, Inst(make_inst, 0)), labels, reachable,
                       resolve_calls, refs)

TranslateI32Store(memory_idx, debug_assertions) ==
    TranslateStore("i32_store", memory_idx, "I32", "I32Store", debug_assertions)

TranslateI64Store(memory_idx, debug_assertions) ==
    TranslateStore("i64_store", memory_idx, "I64", "I64Store", debug_assertions)

TranslateI64StoreI8(memory_idx, debug_assertions) ==
    TranslateStore("i64_store_i8", memory_idx, "I64", "I64Store8", debug_assertions)

\* translate_unary_cmp: the instruction that is pushed is I32Eqz whatever inst
\* is.
TranslateUnaryCmp(operator, input_type, inst, debug_assertions) ==
    /\ CanTranslate
    /\ LET lst == MkLast(operator, <<>>, Len(value_stack))
       IN  IF ~reachable THEN Skip(lst)
           ELSE IF Pop1Panics(value_stack) THEN Panic(lst, resolve_calls)
           ELSE IF DebugAssertEqPanics(debug_assertions, Peek(value_stack, 0), input_type)
           THEN Panic(lst, resolve_calls)
           ELSE Commit(lst, control_frames, Append(Pop1(value_stack), "I32"),
                       Append(insts, Inst("I32Eqz", 0)), labels, reachable,
                       resolve_calls, refs)

TranslateI32Eqz(debug_assertions) ==
    TranslateUnaryCmp("i32_eqz", "I32", "I32Eqz", debug_assertions)

TranslateI64Eqz(debug_assertions) ==
    TranslateUnaryCmp("i64_eqz", "I64", "I64Eqz", debug_assertions)

\* translate_binary_cmp: (v0, v1) are the two entries on top.
TranslateBinaryCmp(operator, input_type, inst, debug_assertions) ==
    /\ CanTranslate
    /\ LET lst == MkLast(operator, <<>>, Len(value_stack))
       IN  IF ~reachable THEN Skip(lst)
           ELSE IF Pop2Panics(value_stack) THEN Panic(lst, resolve_calls)
           ELSE IF DebugAssertEqPanics(debug_assertions, Peek(value_stack, 1),
                                       Peek(value_stack, 0))
           THEN Panic(lst, resolve_calls)
           ELSE IF DebugAssertEqPanics(debug_assertions, Peek(value_stack, 1), input_type)
           THEN Panic(lst, resolve_calls)
           ELSE Commit(lst, control_frames, Append(Pop2(value_stack), "I32"),
                       Append(insts, Inst(inst, 0)), labels, reachable,
                       resolve_calls, refs)

TranslateI32Eq(debug_assertions) ==
    TranslateBinaryCmp("i32_eq", "I32", "I32Eq", debug_assertions)

TranslateI64Eq(debug_assertions) ==
    TranslateBinaryCmp("i64_eq", "I64", "I64Eq", debug_assertions)

TranslateU64Lt(debug_assertions) ==
    TranslateBinaryCmp("u64_lt", "I64", "I64LtU", debug_assertions)

(***************************************************************************)
(* CodeMap                                                                 *)
(***************************************************************************)
\* The largest value of a u16.
U16Max == 65535

\* n does not fit into a u32: n > 2^32 - 1, written without the number 2^32.
ExceedsU32(n) == n \div (U16Max + 1) > U16Max

MaxBodyLen == 2
MaxBodies == 3

\* The instructions stored in a CodeMap are opaque to it.
ExecInstructions == {"inst_a", "inst_b"}

FuncBody(inst, len) == [inst |-> inst, len |-> len]

\* FirstInstr::from_usize asserts that the index fits into 32 bits.
NextIndexPanics(is) == ExceedsU32(Len(is))

\* CodeMap::next_index
NextIndex(is) == Len(is)

\* Mutation of CodeMapExtend: the new body is put in front of the buffer.
CodeMapExtendFront(is, body) == body \o is

\* CodeMap::alloc: self.insts.extend(insts)
CodeMapExtend(is, body) == is \o body

\* CodeMap::alloc: the conversion of the body length to u32 fails.
CodeMapAllocPanics(is, body) ==
    \/ NextIndexPanics(is)
    \/ ExceedsU32(Len(CodeMapExtend(is, body)) - Len(is))

\* Mutation of CodeMapAllocBody: the first index is read after the extension.
CodeMapAllocBodyLateIndex(is, body) ==
    LET len_before == Len(is)
        len_after == Len(CodeMapExtend(is, body))
    IN  FuncBody(len_after, len_after - len_before)

\* Mutation of CodeMapAllocBody: the length is the length of the whole buffer.
CodeMapAllocBodyWholeLen(is, body) ==
    LET inst == NextIndex(is)
        len_after == Len(CodeMapExtend(is, body))
    IN  FuncBody(inst, len_after)

\* CodeMap::alloc: the handle returned.
CodeMapAllocBody(is, body) ==
    LET inst == NextIndex(is)
        len_before == Len(is)
        len_after == Len(CodeMapExtend(is, body))
    IN  FuncBody(inst, len_after - len_before)

\* Mutation of CodeMapResolvePanics: a range that ends at the end of the buffer
\* is rejected.
CodeMapResolvePanicsAtEnd(is, func_body) ==
    func_body.inst + func_body.len >= Len(is)

\* CodeMap::resolve: the slice index is out of range.
CodeMapResolvePanics(is, func_body) ==
    func_body.inst + func_body.len > Len(is)

\* CodeMap::resolve
CodeMapResolve(is, func_body) ==
    SubSeq(is, func_body.inst + 1, func_body.inst + func_body.len)

NoBody == FuncBody(0, 0)

CmInit ==
    /\ cm_insts = <<>>
    /\ cm_panicked = FALSE
    /\ cm_bodies = <<>>
    /\ cm_last = [op |-> "new", body |-> NoBody, insts |-> <<>>, result |-> <<>>]

CodeMapAlloc(body) ==
    /\ ~cm_panicked
    /\ Len(cm_bodies) < MaxBodies
    /\ IF CodeMapAllocPanics(cm_insts, body)
       THEN /\ cm_panicked' = TRUE
            /\ cm_last' = [op |-> "alloc", body |-> NoBody, insts |-> body,
                           result |-> <<>>]
            /\ UNCHANGED <<cm_insts, cm_bodies>>
       ELSE LET func_body == CodeMapAllocBody(cm_insts, body)
                is1 == CodeMapExtend(cm_insts, body)
            IN  /\ cm_insts' = is1
                /\ cm_bodies' = Append(cm_bodies,
                                       [body |-> func_body, insts |-> body,
                                        first_panics |-> CodeMapResolvePanics(is1, func_body),
                                        first |-> IF CodeMapResolvePanics(is1, func_body)
                                                  THEN <<>>
                                                  ELSE CodeMapResolve(is1, func_body)])
                /\ cm_last' = [op |-> "alloc", body |-> func_body, insts |-> body,
                               result |-> <<>>]
                /\ UNCHANGED cm_panicked
    /\ UNCHANGED <<fbVars, arVars, pvVars, itVars>>

\* CodeMap::resolve applied to the k-th handle this map returned.
CodeMapResolveOp(k) ==
    /\ ~cm_panicked
    /\ k \in 1..Len(cm_bodies)
    /\ LET func_body == cm_bodies[k].body
       IN  IF CodeMapResolvePanics(cm_insts, func_body)
           THEN /\ cm_panicked' = TRUE
                /\ cm_last' = [op |-> "resolve", body |-> func_body,
                               insts |-> cm_bodies[k].insts, result |-> <<>>]
           ELSE /\ cm_last' = [op |-> "resolve", body |-> func_body,
                               insts |-> cm_bodies[k].insts,
                               result |-> CodeMapResolve(cm_insts, func_body)]
                /\ UNCHANGED cm_panicked
    /\ UNCHANGED <<cm_insts, cm_bodies>>
    /\ UNCHANGED <<fbVars, arVars, pvVars, itVars>>

\* CodeMap::resolve applied to any handle, returned by this map or not.
MaxHandle == 2

FuncBodies == [inst : 0..MaxHandle, len : 0..MaxHandle]

CodeMapResolveHandle(func_body) ==
    /\ ~cm_panicked
    /\ IF CodeMapResolvePanics(cm_insts, func_body)
       THEN /\ cm_panicked' = TRUE
            /\ cm_last' = [op |-> "resolve_handle", body |-> func_body,
                           insts |-> <<>>, result |-> <<>>]
       ELSE /\ cm_last' = [op |-> "resolve_handle", body |-> func_body,
                           insts |-> <<>>,
                           result |-> CodeMapResolve(cm_insts, func_body)]
            /\ UNCHANGED cm_panicked
    /\ UNCHANGED <<cm_insts, cm_bodies>>
    /\ UNCHANGED <<fbVars, arVars, pvVars, itVars>>

(***************************************************************************)
(* DedupProviderSliceArena                                                 *)
(***************************************************************************)
MaxSliceLen == 2
MaxSlices == 3

\* ExecProvider values: register 0 and constant 0.
ExecProviders == {0, -1}

ExecProviderSlice(first, len) == [first |-> first, len |-> len]

NoSlice == ExecProviderSlice(0, 0)

\* Mutation of ArenaOccupied: the lookup never finds an entry.
ArenaOccupiedNever(dedup, scratch) == FALSE

\* DedupProviderSliceArena::alloc: the dedup map has an entry for the scratch.
ArenaOccupied(dedup, scratch) == scratch \in DOMAIN dedup

\* Mutation of ArenaAllocPanics: only the length of the slice is checked.
ArenaAllocPanicsLenOnly(providers, scratch) ==
    Len(providers \o scratch) - Len(providers) > U16Max

\* DedupProviderSliceArena::alloc, vacant entry: a conversion to u16 fails.
ArenaAllocPanics(providers, scratch) ==
    \/ Len(providers) > U16Max
    \/ Len(providers \o scratch) - Len(providers) > U16Max

\* Mutation of ArenaNewSlice: every slice starts at the front of the buffer.
ArenaNewSliceFromStart(providers, scratch) ==
    ExecProviderSlice(0, Len(providers \o scratch) - Len(providers))

\* DedupProviderSliceArena::alloc, vacant entry: the new slice.
ArenaNewSlice(providers, scratch) ==
    LET first == Len(providers)
        len == Len(providers \o scratch) - first
    IN  ExecProviderSlice(first, len)

\* DedupProviderSliceArena::resolve: the slice index is out of range.
ArenaResolvePanics(providers, slice) == slice.first + slice.len > Len(providers)

\* ExecProviderSlice::empty
ExecProviderSliceEmpty == ExecProviderSlice(0, 0)

\* Mutation of ArenaResolve: the slice is read from the end of the buffer.
ArenaResolveFromEnd(providers, slice) ==
    SubSeq(providers, Len(providers) - slice.len + 1, Len(providers))

\* DedupProviderSliceArena::resolve
ArenaResolve(providers, slice) ==
    SubSeq(providers, slice.first + 1, slice.first + slice.len)

ArInit ==
    /\ ar_scratch = <<>>
    /\ ar_dedup = <<>>
    /\ ar_providers = <<>>
    /\ ar_panicked = FALSE
    /\ ar_calls = <<>>
    /\ ar_at = [calls |-> 0, stored |-> 0, registers |-> <<>>, panics |-> FALSE,
                slice |-> NoSlice, stored_after |-> 0]

ArenaAlloc(registers) ==
    /\ ~ar_panicked
    /\ Len(ar_calls) < MaxSlices
    /\ LET scratch == registers
       IN  /\ ar_scratch' = scratch
           /\ IF ArenaOccupied(ar_dedup, scratch)
              THEN /\ ar_calls' = Append(ar_calls, [registers |-> registers,
                                                    slice |-> ar_dedup[scratch],
                                                    hit |-> TRUE])
                   /\ UNCHANGED <<ar_dedup, ar_providers, ar_panicked>>
              ELSE IF ArenaAllocPanics(ar_providers, scratch)
              THEN /\ ar_providers' = ar_providers \o scratch
                   /\ ar_panicked' = TRUE
                   /\ UNCHANGED <<ar_dedup, ar_calls>>
              ELSE LET dedup == ArenaNewSlice(ar_providers, scratch)
                   IN  /\ ar_providers' = ar_providers \o scratch
                       /\ ar_dedup' = (scratch :> dedup) @@ ar_dedup
                       /\ ar_calls' = Append(ar_calls, [registers |-> registers,
                                                        slice |-> dedup,
                                                        hit |-> FALSE])
                       /\ UNCHANGED ar_panicked
    /\ UNCHANGED ar_at
    /\ UNCHANGED <<fbVars, cmVars, pvVars, itVars>>

\* DedupProviderSliceArena::alloc, vacant entry, applied to an arena that holds
\* `stored` providers already: whether it fails, the slice it returns and the
\* number of providers stored afterwards.
MaxSlack == 8

ArenaAllocVacantAt(stored, registers) ==
    /\ ar_at.calls = 0
    /\ LET providers == [i \in 1..stored |-> 0]
           scratch == registers
       IN  ar_at' = [calls |-> 1, stored |-> Len(providers), registers |-> registers,
                     panics |-> ArenaAllocPanics(providers, scratch),
                     slice |-> ArenaNewSlice(providers, scratch),
                     stored_after |-> Len(providers \o scratch)]
    /\ UNCHANGED <<ar_scratch, ar_dedup, ar_providers, ar_panicked, ar_calls>>
    /\ UNCHANGED <<fbVars, cmVars, pvVars, itVars>>

(***************************************************************************)
(* ExecProvider                                                            *)
(***************************************************************************)
\* The largest value of an i32.
I32Max == 2147483647

MaxRegisterIndex == 30
MaxConstIndex == 30

\* Register indices are u16: small ones and the ones around 2^15 and 2^16.
RegisterIndices == (0..MaxRegisterIndex) \cup {32767, 32768, U16Max - 1, U16Max}

\* A u32 above i32::MAX is written as the i32 that has the same 32 bits:
\* 2^31 and 2^32 - 1.
LargeConstIndices == {(0 - I32Max) - 1, 0 - 1}

\* "<" of two u32 values.
U32Lt(a, b) == IF (a < 0) = (b < 0) THEN a < b ELSE b < 0

\* Constant indices handed to from_immediate: small ones, the ones around
\* 2^16 and the ones around the bound of the assertion.
ConstIndices ==
    (0..MaxConstIndex) \cup {U16Max, U16Max + 1, I32Max - 1, I32Max}
        \cup LargeConstIndices

\* "as u32 as i32": zero extension, then the 32 bits read as two's complement.
AsI32(n) == IF n > I32Max THEN ((n - I32Max) - I32Max) - 2 ELSE n

\* "as u16": the low 16 bits of a non-negative value.
AsU16(n) == n % (U16Max + 1)

\* i32::wrapping_add(1)
WrappingAdd1(x) == IF x = I32Max THEN (0 - I32Max) - 1 ELSE x + 1

\* i32::wrapping_sub(1)
WrappingSub1(x) == IF x = (0 - I32Max) - 1 THEN I32Max ELSE x - 1

\* i32::neg
Neg(x) == 0 - x

\* i32::abs
Abs(x) == IF x < 0 THEN 0 - x ELSE x

\* i32::is_negative
IsNegative(x) == x < 0

Register(index) == [tag |-> "Register", index |-> index]

Immediate(index) == [tag |-> "Immediate", index |-> index]

NoOperand == [tag |-> "None", index |-> 0]

\* ExecProvider::from_register
ExecProviderFromRegister(register) == AsI32(register)

\* Mutation of ExecProviderFromImmediatePanics: the index is compared as an
\* i32.
ExecProviderFromImmediatePanicsSigned(index) == ~(index < I32Max)

\* ExecProvider::from_immediate: the assertion on the constant index.
ExecProviderFromImmediatePanics(index) == ~U32Lt(index, I32Max)

\* Mutation of ExecProviderFromImmediate: the offset of one is left out.
ExecProviderFromImmediateNoOffset(index) == Neg(index)

\* ExecProvider::from_immediate
ExecProviderFromImmediate(index) == Neg(WrappingAdd1(index))

\* ConstRef::from_usize
ConstRefFromUsize(value) == value

\* ExecRegister::from_inner
ExecRegisterFromInner(inner) == inner

\* Mutation of ExecProviderDecode: the offset of one is not taken back.
ExecProviderDecodeNoOffset(inner) ==
    IF IsNegative(inner) THEN Immediate(ConstRefFromUsize(Abs(inner)))
    ELSE Register(ExecRegisterFromInner(AsU16(inner)))

\* ExecProvider::decode
ExecProviderDecode(inner) ==
    IF IsNegative(inner) THEN Immediate(ConstRefFromUsize(WrappingSub1(Abs(inner))))
    ELSE Register(ExecRegisterFromInner(AsU16(inner)))

PvInit ==
    pv_last = [op |-> "new", src |-> "new", index |-> 0, inner |-> 0,
               panicked |-> FALSE, decoded |-> NoOperand]

ProviderFromRegister(register) ==
    /\ ~pv_last.panicked
    /\ pv_last' = [op |-> "from_register", src |-> "from_register",
                   index |-> register,
                   inner |-> ExecProviderFromRegister(register),
                   panicked |-> FALSE, decoded |-> NoOperand]
    /\ UNCHANGED <<fbVars, cmVars, arVars, itVars>>

ProviderFromImmediate(index) ==
    /\ ~pv_last.panicked
    /\ IF ExecProviderFromImmediatePanics(index)
       THEN pv_last' = [op |-> "from_immediate", src |-> "from_immediate",
                        index |-> index, inner |-> 0,
                        panicked |-> TRUE, decoded |-> NoOperand]
       ELSE pv_last' = [op |-> "from_immediate", src |-> "from_immediate",
                        index |-> index,
                        inner |-> ExecProviderFromImmediate(index),
                        panicked |-> FALSE, decoded |-> NoOperand]
    /\ UNCHANGED <<fbVars, cmVars, arVars, itVars>>

\* ExecProvider::decode applied to the provider made last.
ProviderDecode ==
    /\ ~pv_last.panicked
    /\ pv_last.op \in {"from_register", "from_immediate"}
    /\ pv_last' = [pv_last EXCEPT !.op = "decode",
                                  !.decoded = ExecProviderDecode(pv_last.inner)]
    /\ UNCHANGED <<fbVars, cmVars, arVars, itVars>>

(***************************************************************************)
(* Interpreter (v2): the CodeMap behind the lock of the shared inner state.*)
(* Each holder of the Interpreter runs alloc_func_body; CodeMap::alloc is  *)
(* taken statement by statement.                                           *)
(***************************************************************************)
MaxHolders == 2
MaxCalls == 2

Holders == 1..MaxHolders

NoHolder == 0

NoCallFrame == [insts |-> <<>>, inst |-> 0, len_before |-> 0, func_body |-> NoBody]

\* Mutation of MutexCanLock: the lock is handed out while it is held.
MutexCanLockAlways(lock) == TRUE

\* Interpreter::alloc_func_body: self.inner.lock() returns once nobody holds
\* the lock.
MutexCanLock(lock) == lock = NoHolder

ItInit ==
    /\ it_lock = NoHolder
    /\ it_pc = [h \in Holders |-> "idle"]
    /\ it_frame = [h \in Holders |-> NoCallFrame]
    /\ it_calls = <<>>

CallsInFlight == Cardinality({h \in Holders : it_pc[h] \notin {"idle", "panicked"}})

\* A holder calls Interpreter::alloc_func_body(insts).
InterpreterCall(h, body) ==
    /\ it_pc[h] = "idle"
    /\ Len(it_calls) + CallsInFlight < MaxCalls
    /\ it_pc' = [it_pc EXCEPT ![h] = "lock"]
    /\ it_frame' = [it_frame EXCEPT ![h] = [NoCallFrame EXCEPT !.insts = body]]
    /\ UNCHANGED <<it_lock, it_calls>>
    /\ UNCHANGED <<fbVars, cmVars, arVars, pvVars>>

\* self.inner.lock()
InterpreterLock(h) ==
    /\ it_pc[h] = "lock"
    /\ MutexCanLock(it_lock)
    /\ it_lock' = h
    /\ it_pc' = [it_pc EXCEPT ![h] = "next_index"]
    /\ UNCHANGED <<it_frame, it_calls>>
    /\ UNCHANGED <<fbVars, cmVars, arVars, pvVars>>

\* CodeMap::alloc: let inst = self.next_index(); let len_before = self.insts.len();
\* a panic unwinds and drops the guard of the lock.
InterpreterNextIndex(h) ==
    /\ it_pc[h] = "next_index"
    /\ IF NextIndexPanics(cm_insts)
       THEN /\ it_pc' = [it_pc EXCEPT ![h] = "panicked"]
            /\ it_lock' = IF it_lock = h THEN NoHolder ELSE it_lock
            /\ UNCHANGED it_frame
       ELSE /\ it_pc' = [it_pc EXCEPT ![h] = "extend"]
            /\ it_frame' = [it_frame EXCEPT ![h].inst = NextIndex(cm_insts),
                                            ![h].len_before = Len(cm_insts)]
            /\ UNCHANGED it_lock
    /\ UNCHANGED it_calls
    /\ UNCHANGED <<fbVars, cmVars, arVars, pvVars>>

\* CodeMap::alloc: self.insts.extend(insts)
InterpreterExtend(h) ==
    /\ it_pc[h] = "extend"
    /\ cm_insts' = CodeMapExtend(cm_insts, it_frame[h].insts)
    /\ it_pc' = [it_pc EXCEPT ![h] = "len"]
    /\ UNCHANGED <<it_lock, it_frame, it_calls>>
    /\ UNCHANGED <<cm_panicked, cm_bodies, cm_last>>
    /\ UNCHANGED <<fbVars, arVars, pvVars>>

\* CodeMap::alloc: let len_after = self.insts.len(); FuncBody::new(inst, len_insts)
InterpreterLen(h) ==
    /\ it_pc[h] = "len"
    /\ LET len_after == Len(cm_insts)
           len_insts == len_after - it_frame[h].len_before
       IN  IF ExceedsU32(len_insts)
           THEN /\ it_pc' = [it_pc EXCEPT ![h] = "panicked"]
                /\ it_lock' = IF it_lock = h THEN NoHolder ELSE it_lock
                /\ UNCHANGED it_frame
           ELSE /\ it_pc' = [it_pc EXCEPT ![h] = "unlock"]
                /\ it_frame' = [it_frame EXCEPT
                                   ![h].func_body = FuncBody(it_frame[h].inst, len_insts)]
                /\ UNCHANGED it_lock
    /\ UNCHANGED it_calls
    /\ UNCHANGED <<fbVars, cmVars, arVars, pvVars>>

\* The guard of the lock is dropped and alloc_func_body returns the FuncBody.
InterpreterUnlock(h) ==
    /\ it_pc[h] = "unlock"
    /\ it_lock' = IF it_lock = h THEN NoHolder ELSE it_lock
    /\ it_pc' = [it_pc EXCEPT ![h] = "idle"]
    /\ it_frame' = [it_frame EXCEPT ![h] = NoCallFrame]
    /\ it_calls' = Append(it_calls, [holder |-> h, insts |-> it_frame[h].insts,
                                     body |-> it_frame[h].func_body])
    /\ UNCHANGED <<fbVars, cmVars, arVars, pvVars>>

(***************************************************************************)
(* Specification of the function builder.                                  *)
(***************************************************************************)
NoFuncType == [params |-> 0, results |-> 0]

Init == FbInit(FuncTypes) /\ CmInit /\ ArInit /\ PvInit /\ ItInit

Next ==
    \/ TranslateUnreachable
    \/ \E bt \in BlockTypes : TranslateBlock(bt)
    \/ \E bt \in BlockTypes : TranslateLoop(bt)
    \/ \E bt \in BlockTypes : TranslateIf(bt)
    \/ TranslateElse
    \/ TranslateEnd
    \/ \E d \in Depths : TranslateBr(d)
    \/ \E d \in Depths : TranslateBrIf(d)
    \/ \E d \in Depths, ts \in SeqsUpTo(Depths, MaxTargets) : TranslateBrTable(d, ts)
    \/ TranslateReturn
    \/ TranslateI32Const
    \/ TranslateDrop

Spec == Init /\ [][Next]_vars

(***************************************************************************)
(* Specification of the function builder for functions with declared       *)
(* locals: the local declarations, then operators that use the locals.     *)
(***************************************************************************)
NextLocals ==
    \/ \E amount \in 1..MaxLocals, t \in ValueTypes : TranslateLocals(amount, t)
    \/ \E idx \in 0..(MaxParams + MaxLocals - 1) : TranslateLocalGet(idx)
    \/ \E idx \in 0..(MaxParams + MaxLocals - 1), debug_assertions \in BOOLEAN :
           TranslateLocalSet(idx, debug_assertions)
    \/ \E idx \in 0..(MaxParams + MaxLocals - 1), debug_assertions \in BOOLEAN :
           TranslateLocalTee(idx, debug_assertions)
    \/ \E bt \in BlockTypes : TranslateBlock(bt)
    \/ TranslateEnd
    \/ \E d \in Depths : TranslateBr(d)
    \/ TranslateReturn
    \/ TranslateI32Const
    \/ TranslateDrop

SpecLocals == Init /\ [][NextLocals]_vars

(***************************************************************************)
(* Specification of the function builder for an if with both arms.  The    *)
(* condition, the if, one operator of the then arm and the else are four   *)
(* operators, so the driver hands over one operator more than MaxOps.      *)
(***************************************************************************)
InitIfElse == FbInitFrom(FuncTypes, 0 - 1) /\ CmInit /\ ArInit /\ PvInit /\ ItInit

NextIfElse ==
    \/ TranslateI32Const
    \/ TranslateDrop
    \/ \E bt \in BlockTypes : TranslateIf(bt)
    \/ TranslateElse
    \/ TranslateEnd

SpecIfElse == InitIfElse /\ [][NextIfElse]_vars

(***************************************************************************)
(* Specification of the function builder for the operators on values:      *)
(* constants of two types, drop, select, memory accesses and comparisons.  *)
(***************************************************************************)
NextOperators ==
    \/ TranslateI32Const
    \/ TranslateI64Const
    \/ TranslateDrop
    \/ \E debug_assertions \in BOOLEAN : TranslateSelect(debug_assertions)
    \/ \E m \in MemoryIndices, debug_assertions \in BOOLEAN :
          \/ TranslateI32Load(m, debug_assertions)
          \/ TranslateI64Load(m, debug_assertions)
          \/ TranslateI64LoadI8(m, debug_assertions)
          \/ TranslateI32Store(m, debug_assertions)
          \/ TranslateI64Store(m, debug_assertions)
          \/ TranslateI64StoreI8(m, debug_assertions)
    \/ \E debug_assertions \in BOOLEAN :
          \/ TranslateI32Eqz(debug_assertions)
          \/ TranslateI64Eqz(debug_assertions)
          \/ TranslateI32Eq(debug_assertions)
          \/ TranslateI64Eq(debug_assertions)
          \/ TranslateU64Lt(debug_assertions)

SpecOperators == Init /\ [][NextOperators]_vars

(***************************************************************************)
(* Specification of the CodeMap.                                           *)
(***************************************************************************)
\* Calls inside blocks.
TableIndices == {0, 1}

NextCalls ==
    \/ \E bt \in BlockTypes : TranslateBlock(bt)
    \/ TranslateEnd
    \/ TranslateI32Const
    \/ TranslateDrop
    \/ \E callee \in FuncTypes : TranslateCall(callee)
    \/ \E callee \in FuncTypes, table_idx \in TableIndices :
          TranslateCallIndirect(callee, table_idx)

SpecCalls == Init /\ [][NextCalls]_vars

InitCodeMap == FbInit({NoFuncType}) /\ CmInit /\ ArInit /\ PvInit /\ ItInit

NextCodeMap ==
    \/ \E body \in SeqsUpTo(ExecInstructions, MaxBodyLen) : CodeMapAlloc(body)
    \/ \E k \in 1..MaxBodies : CodeMapResolveOp(k)

SpecCodeMap == InitCodeMap /\ [][NextCodeMap]_vars

\* resolve of any handle: only the lengths of the bodies matter.
NextCodeMapHandles ==
    \/ \E body \in SeqsUpTo({"inst_a"}, MaxBodyLen) : CodeMapAlloc(body)
    \/ \E k \in 1..MaxBodies : CodeMapResolveOp(k)
    \/ \E func_body \in FuncBodies : CodeMapResolveHandle(func_body)

SpecCodeMapHandles == InitCodeMap /\ [][NextCodeMapHandles]_vars

(***************************************************************************)
(* Specification of the DedupProviderSliceArena.                           *)
(***************************************************************************)
InitArena == FbInit({NoFuncType}) /\ CmInit /\ ArInit /\ PvInit /\ ItInit

NextArena ==
    \E registers \in SeqsUpTo(ExecProviders, MaxSliceLen) : ArenaAlloc(registers)

SpecArena == InitArena /\ [][NextArena]_vars

\* alloc of a sequence that is not stored yet, in arenas that are nearly full.
NextArenaFull ==
    \E stored \in (U16Max - MaxSlack)..(U16Max + MaxSlack),
       registers \in SeqsUpTo(ExecProviders, MaxSliceLen) :
        ArenaAllocVacantAt(stored, registers)

SpecArenaFull == InitArena /\ [][NextArenaFull]_vars

(***************************************************************************)
(* Specification of the ExecProvider encoding.                             *)
(***************************************************************************)
InitProvider == FbInit({NoFuncType}) /\ CmInit /\ ArInit /\ PvInit /\ ItInit

NextProvider ==
    \/ \E register \in RegisterIndices : ProviderFromRegister(register)
    \/ \E index \in ConstIndices : ProviderFromImmediate(index)
    \/ ProviderDecode

SpecProvider == InitProvider /\ [][NextProvider]_vars

(***************************************************************************)
(* Specification of the Interpreter shared by several holders.             *)
(***************************************************************************)
InitInterpreter == FbInit({NoFuncType}) /\ CmInit /\ ArInit /\ PvInit /\ ItInit

NextInterpreter ==
    \/ \E h \in Holders, body \in SeqsUpTo(ExecInstructions, MaxBodyLen) :
           InterpreterCall(h, body)
    \/ \E h \in Holders : InterpreterLock(h)
    \/ \E h \in Holders : InterpreterNextIndex(h)
    \/ \E h \in Holders : InterpreterExtend(h)
    \/ \E h \in Holders : InterpreterLen(h)
    \/ \E h \in Holders : InterpreterUnlock(h)

SpecInterpreter == InitInterpreter /\ [][NextInterpreter]_vars

(***************************************************************************)
(* Properties.                                                             *)
(***************************************************************************)
BranchTranslated == last.op \in {"br", "br_if", "br_table"}

\* The instruction emitted for arm n (1-based) of the branch translated last.
EmittedArm(n) ==
    IF last.op = "br_table" THEN insts[last.pre_insts + 1 + n]
    ELSE insts[last.pre_insts + 1]

\* Result arity of a block or if, parameter arity of a loop.
BranchArity(frame) ==
    IF frame.okind = "Loop" THEN frame.bt.params ELSE frame.bt.results

\* C1: a branch (br, br_if, any br_table arm) translated in reachable code
\* to a frame pushed at height H, at a current height C with C > H and
\* C - H >= R, is emitted with keep = R and drop = (C - H) - R, where R is
\* the result count of a block or if and the parameter count of a loop.
C1_BranchDropKeep ==
    (BranchTranslated /\ last.reach
        /\ \A n \in 1..Len(last.depths) : last.depths[n] < Len(control_frames))
    => \A n \in 1..Len(last.depths) :
          LET frame == NthBack(control_frames, last.depths[n])
              H == frame.height
              C == last.height
              R == BranchArity(frame)
          IN  (C > H /\ C - H >= R)
              => /\ ~panicked
                 /\ EmittedArm(n).keep = R
                 /\ EmittedArm(n).drop = (C - H) - R

\* C2: for a well-nested operator sequence every label allocated during the
\* translation is passed to resolve_label exactly once by the time the final
\* end has been translated, never zero times and never twice.
C2_LabelsResolvedExactlyOnce ==
    nesting.ok
    => /\ \A l \in 1..Len(resolve_calls) : resolve_calls[l] <= 1
       /\ (nesting.arms = <<>> /\ ~panicked)
          => \A l \in 1..Len(resolve_calls) : resolve_calls[l] = 1

\* The relocations registered for label l that patch instruction idx.
RelocsFor(l, idx) ==
    {k \in 1..Len(labels[l + 1].relocs) : RelocInst(labels[l + 1].relocs[k]) = idx}

\* C3: a reference to a label made before its resolution registers exactly
\* one relocation for the referencing instruction, a reference made after
\* the resolution carries the resolved position and registers nothing,
\* after resolve_label every instruction that referenced the label carries
\* the position of the label, and a second resolve_label is rejected.
C3_LabelResolution ==
    /\ \A r \in 1..Len(refs) :
          LET l == refs[r].label
              inst == insts[refs[r].idx + 1]
          IN  /\ inst.op \in BranchOps
              /\ IF IsResolved(labels, l)
                 THEN inst.dst = labels[l + 1].pos
                 ELSE /\ inst.dst = InvalidPc
                      /\ Cardinality(RelocsFor(l, refs[r].idx)) = 1
    /\ \A l \in 0..(Len(labels) - 1) :
          /\ IsResolved(labels, l) => labels[l + 1].relocs = <<>>
          /\ Len(labels[l + 1].relocs)
                = Cardinality({r \in 1..Len(refs) : refs[r].label = l
                                                    /\ ~IsResolved(labels, l)})
          /\ IsResolved(labels, l) => labels[l + 1].pos \in 0..Len(insts)
    /\ \A l \in 1..Len(resolve_calls) : resolve_calls[l] >= 2 => panicked

\* C3 witness: a br_table arm that referenced an unresolved label carries
\* the position the label was resolved to later on.
C3_Witness ==
    \E r \in 1..Len(refs) :
        /\ insts[refs[r].idx + 1].op = "BrTableTarget"
        /\ IsResolved(labels, refs[r].label)
        /\ labels[refs[r].label + 1].pos > refs[r].idx
        /\ insts[refs[r].idx + 1].dst = labels[refs[r].label + 1].pos

\* C4: a fresh builder is reachable; in reachable code unreachable, br,
\* br_table and return leave reachable = false, br_if leaves it true.
C4_ReachabilityCleared ==
    /\ last.op = "new" => reachable
    /\ (last.reach /\ ~panicked
            /\ last.op \in {"unreachable", "br", "br_table", "return"})
       => ~reachable
    /\ (last.reach /\ ~panicked /\ last.op = "br_if") => reachable

\* C4 witness: a br_if was translated in reachable code.
C4_Witness == last.op = "br_if" /\ last.reach /\ ~panicked /\ reachable

\* C5: else or end executed while reachable = false leaves reachable = true
\* exactly if the frame on top was pushed in reachable code; the else of an
\* if whose then-arm ended with an unconditional exit makes the else arm
\* reachable.
C5_ReachabilityRestored ==
    (nesting.ok /\ last.op \in {"else", "end"} /\ ~last.reach)
    => /\ ~panicked => (reachable <=> last.top.kind # "Unreachable")
       /\ (last.op = "else" /\ last.top.kind = "If") => (~panicked /\ reachable)

\* C6: while reachable = false every operator other than else and end
\* appends no instruction, allocates no label and leaves the compile-time
\* value stack unchanged.
C6_DeadCodeIsSkipped ==
    (~last.reach /\ last.op \notin {"new", "locals", "else", "end"})
    => /\ Len(insts) = last.pre_insts
       /\ Len(labels) = last.pre_labels
       /\ value_stack = last.pre_stack

\* C7: resolve(alloc(s)) equals s element by element and in length, for
\* every state of the map and every s.
C7_AllocResolveRoundTrip ==
    (cm_last.op = "alloc" /\ ~cm_panicked)
    => /\ ~CodeMapResolvePanics(cm_insts, cm_last.body)
       /\ CodeMapResolve(cm_insts, cm_last.body) = cm_last.insts
       /\ Len(CodeMapResolve(cm_insts, cm_last.body)) = Len(cm_last.insts)

\* C7 witness: a non-empty body was allocated in a non-empty map.
C7_Witness ==
    /\ cm_last.op = "alloc"
    /\ ~cm_panicked
    /\ Len(cm_last.insts) = 2
    /\ cm_last.body.inst > 0

RECURSIVE SumLens(_, _)
SumLens(bodies, k) ==
    IF k = 0 THEN 0 ELSE SumLens(bodies, k - 1) + Len(bodies[k].insts)

Range(func_body) == func_body.inst .. (func_body.inst + func_body.len - 1)

C9_AllocIsAppendOnly ==
    /\ \A k \in 1..Len(cm_bodies) :
          /\ ~cm_bodies[k].first_panics
          /\ ~CodeMapResolvePanics(cm_insts, cm_bodies[k].body)
          /\ CodeMapResolve(cm_insts, cm_bodies[k].body) = cm_bodies[k].first
    /\ (cm_last.op = "resolve" /\ ~cm_panicked)
       => \E k \in 1..Len(cm_bodies) :
             cm_bodies[k].body = cm_last.body /\ cm_last.result = cm_bodies[k].first

\* C9 witness: the first handle was resolved after two later allocations.
C9_Witness ==
    /\ cm_last.op = "resolve"
    /\ ~cm_panicked
    /\ Len(cm_bodies) = 3
    /\ cm_last.body = cm_bodies[1].body
    /\ Len(cm_last.result) = 2
    /\ Len(cm_bodies[2].insts) > 0

\* C10: two alloc calls with element-wise equal sequences return equal
\* handles, whatever was allocated in between, and resolve of the handle
\* yields that sequence.
C10_EqualSequencesShareHandle ==
    \A i, j \in 1..Len(ar_calls) :
        ar_calls[i].registers = ar_calls[j].registers
        => /\ ar_calls[i].slice = ar_calls[j].slice
           /\ ~ArenaResolvePanics(ar_providers, ar_calls[i].slice)
           /\ ArenaResolve(ar_providers, ar_calls[i].slice) = ar_calls[i].registers

\* C10 witness: a sequence was allocated, then another one, then the first
\* one again.
C10_Witness ==
    /\ Len(ar_calls) = 3
    /\ ar_calls[1].registers = ar_calls[3].registers
    /\ ar_calls[1].registers # ar_calls[2].registers
    /\ Len(ar_calls[1].registers) = 2
    /\ Len(ar_calls[2].registers) > 0

SliceRange(slice) == slice.first .. (slice.first + slice.len - 1)

\* C11: two alloc calls whose provider sequences differ in length or in some
\* position (one of them may be empty) return handles that are not equal
\* and whose index ranges [first, first + len) do not overlap.
C11_DifferentSequencesDisjointHandles ==
    \A i, j \in 1..Len(ar_calls) :
        ar_calls[i].registers # ar_calls[j].registers
        => /\ ar_calls[i].slice # ar_calls[j].slice
           /\ SliceRange(ar_calls[i].slice) \cap SliceRange(ar_calls[j].slice) = {}

\* C11 witness: a sequence, then the empty sequence, then a sequence that
\* differs from the first one in its second position only.
C11_Witness ==
    /\ Len(ar_calls) = 3
    /\ Len(ar_calls[1].registers) = 2
    /\ ar_calls[2].registers = <<>>
    /\ Len(ar_calls[3].registers) = 2
    /\ ar_calls[1].registers[1] = ar_calls[3].registers[1]
    /\ ar_calls[1].registers[2] # ar_calls[3].registers[2]
    /\ ar_calls[3].slice.first = 2

\* C12: for every register index R of 16 bits decode(from_register(R)) is
\* Register(R), and for every constant index K that from_immediate accepts
\* decode(from_immediate(K)) is Immediate(K).
C12_ProviderRoundTrip ==
    (pv_last.op = "decode" /\ ~pv_last.panicked)
    => /\ pv_last.src = "from_register" => pv_last.decoded = Register(pv_last.index)
       /\ pv_last.src = "from_immediate" => pv_last.decoded = Immediate(pv_last.index)

\* C12 witness: the largest constant index of 16 bits was encoded and decoded.
C12_Witness ==
    /\ pv_last.op = "decode"
    /\ pv_last.src = "from_immediate"
    /\ pv_last.index = U16Max
    /\ pv_last.decoded = Immediate(U16Max)

\* C13: every register encodes to a non-negative integer, every accepted
\* constant to a negative one, and no register has the encoding of a constant.
C13_EncodingsDisjoint ==
    /\ (pv_last.src = "from_register" /\ ~pv_last.panicked)
       => /\ pv_last.inner >= 0
          /\ \A K \in ConstIndices :
                ~ExecProviderFromImmediatePanics(K)
                => pv_last.inner # ExecProviderFromImmediate(K)
    /\ (pv_last.src = "from_immediate" /\ ~pv_last.panicked)
       => /\ pv_last.inner < 0
          /\ \A R \in RegisterIndices : pv_last.inner # ExecProviderFromRegister(R)

\* C13 witness: constant 0, the constant next to the registers, was encoded.
C13_Witness ==
    /\ pv_last.op = "from_immediate"
    /\ ~pv_last.panicked
    /\ pv_last.index = 0
    /\ pv_last.inner = -1

\* The locals declared by translate_locals: the registered locals that are
\* not parameters.
DeclaredLocals == Len(locals) - func_type.params

\* C14: translate_return in reachable code, where a branch to the function
\* body frame has a DropKeep at the current height, emits exactly one Return
\* whose keep is the result count of the function and whose drop is the drop
\* of that branch plus the declared locals plus the parameters, each counted
\* once.
C14_ReturnDropKeep ==
    (last.op = "return" /\ last.reach /\ control_frames # <<>>
        /\ ~ComputeDropKeepPanics(control_frames, Len(control_frames) - 1, TRUE,
                                  last.height))
    => /\ ~panicked
       /\ Len(insts) = last.pre_insts + 1
       /\ insts[Len(insts)].op = "Return"
       /\ insts[Len(insts)].keep = func_type.results
       /\ insts[Len(insts)].drop
             = ComputeDropKeep(control_frames, Len(control_frames) - 1, TRUE,
                               last.height).drop
               + DeclaredLocals + func_type.params

\* The operand values above the parameters and locals when the operator
\* translated last computed its DropKeep: the parameters are the bottom
\* entries of the compile-time stack.
OperandsAbove == last.height - func_type.params

\* C15: every branch or return instruction emitted for a function with P
\* parameters and L declared locals, at a point with h operand values above
\* the parameters and locals, has drop + keep <= P + L + h.
C15_DropKeepWithinFrame ==
    (last.op \in {"br", "br_if", "br_table", "return"} /\ last.reach /\ ~panicked)
    => \A i \in (last.pre_insts + 1)..Len(insts) :
          insts[i].op \in BranchOps \cup {"Return"}
          => insts[i].drop + insts[i].keep
                <= func_type.params + DeclaredLocals + OperandsAbove

\* The references to label l made so far.
RefsTo(l) == {r \in 1..Len(refs) : refs[r].label = l}

\* C16: the translation of "if (result i32) <then> else <else> end" in
\* reachable code completes; exactly one BrIfEqz was emitted for it and its
\* target is the first instruction of the else arm; the Br emitted at the
\* end of the then arm has the position right after the else arm as target;
\* nothing else branches to the else label.
C16_IfElseEndShape ==
    (last.op = "end" /\ nesting.ok /\ last.arm = "else"
        /\ last.top.kind = "If" /\ last.top.bt.results = 1)
    => /\ ~panicked
       /\ LET else_label == last.top.else_label
              end_label == last.top.label
              else_pc == labels[else_label + 1].pos
          IN  /\ Cardinality(RefsTo(else_label)) = 1
              /\ \A r \in RefsTo(else_label) :
                    /\ insts[refs[r].idx + 1].op = "BrIfEqz"
                    /\ insts[refs[r].idx + 1].dst = else_pc
              /\ else_pc >= 1
              /\ insts[else_pc].op = "Br"
              /\ \E r \in RefsTo(end_label) : refs[r].idx = else_pc - 1
              /\ insts[else_pc].dst = last.pre_insts
              /\ labels[end_label + 1].pos = last.pre_insts

\* C17: a br 0 in the body of a loop, translated in reachable code at any
\* height from the entry height of the loop on (the loop was entered with
\* its parameters on the stack), completes and emits a Br whose keep is the
\* parameter count of the loop and whose target is the loop header.
C17_LoopBranchKeepsParams ==
    (last.op = "br" /\ last.reach /\ nesting.ok /\ last.depths = <<0>>
        /\ last.top.kind = "Loop"
        /\ last.top.height >= last.top.bt.params
        /\ last.height >= last.top.height)
    => /\ ~panicked
       /\ Len(insts) = last.pre_insts + 1
       /\ insts[Len(insts)].op = "Br"
       /\ insts[Len(insts)].keep = last.top.bt.params
       /\ insts[Len(insts)].dst = labels[last.top.label + 1].pos
       /\ IsResolved(labels, last.top.label)

\* The operators translated so far are block (result i32), i32.const, end,
\* from an empty compile-time stack: the end met the frame of the second
\* label, pushed at height 0, with the one constant above it.
BlockConstEnd ==
    /\ nops = 3
    /\ last.op = "end"
    /\ func_type.params = 0
    /\ last.top.kind = "Block"
    /\ last.top.label = 1
    /\ last.top.bt = [params |-> 0, results |-> 1]
    /\ last.top.height = 0
    /\ last.pre_stack = <<"I32">>

\* C18: "block (result i32) i32.const 1 end" from an empty compile-time
\* stack emits exactly one instruction, the constant push, emits no branch
\* and resolves the end label of the block to the position right after the
\* constant.
C18_BlockConstEndShape ==
    BlockConstEnd
    => /\ ~panicked
       /\ Len(insts) = 1
       /\ insts[1].op = "Const"
       /\ \A i \in 1..Len(insts) : insts[i].op \notin BranchOps \cup {"BrTable"}
       /\ IsResolved(labels, 1)
       /\ labels[2].pos = 1
       /\ resolve_calls[2] = 1

\* C18 witness: the three operators were translated and the end label is at
\* position 1.
C18_Witness == BlockConstEnd /\ ~panicked /\ labels[2].pos = 1 /\ Len(control_frames) = 1

\* The holders inside CodeMap::alloc.
InsideAlloc == {h \in Holders : it_pc[h] \in {"next_index", "extend", "len", "unlock"}}

\* The bodies of the calls, the first k of them in the order perm.
RECURSIVE ConcatCalls(_, _, _)
ConcatCalls(calls, perm, k) ==
    IF k = 0 THEN <<>>
    ELSE ConcatCalls(calls, perm, k - 1) \o calls[perm[k]].insts

\* C19: alloc_func_body calls of several holders of one Interpreter are
\* serialized by the lock: at most one holder is inside CodeMap::alloc, each
\* FuncBody returned denotes a contiguous range that holds the instructions
\* of its call in order, the ranges of different calls do not overlap, and
\* once no call is in flight the buffer is the bodies in some sequential
\* order.
C19_AllocsAreSerialized ==
    /\ Cardinality(InsideAlloc) <= 1
    /\ \A k \in 1..Len(it_calls) :
          /\ ~CodeMapResolvePanics(cm_insts, it_calls[k].body)
          /\ CodeMapResolve(cm_insts, it_calls[k].body) = it_calls[k].insts
    /\ \A i, j \in 1..Len(it_calls) :
          i # j => Range(it_calls[i].body) \cap Range(it_calls[j].body) = {}
    /\ (\A h \in Holders : it_pc[h] = "idle")
       => \E perm \in Permutations(1..Len(it_calls)) :
             cm_insts = ConcatCalls(it_calls, perm, Len(it_calls))

\* C19 witness: the call of one holder has returned and the call of another
\* holder, made meanwhile, got the range right behind it.
C19_Witness ==
    /\ Len(it_calls) = 1
    /\ Len(it_calls[1].insts) = 2
    /\ \E h \in Holders :
          /\ h # it_calls[1].holder
          /\ it_pc[h] = "unlock"
          /\ it_frame[h].func_body = FuncBody(2, 2)
          /\ it_frame[h].insts # it_calls[1].insts

\* The operator translated last is a local.get, local.set or local.tee of
\* validated input: the index is below the parameter count plus the declared
\* local count, and local.set and local.tee find a value of the type of the
\* local on top of the stack.
ValidLocalAccess ==
    /\ last.op \in {"local_get", "local_set", "local_tee"}
    /\ last.reach
    /\ last.depths[1] < func_type.params + DeclaredLocals
    /\ last.op \in {"local_set", "local_tee"}
       => /\ last.pre_stack # <<>>
          /\ Top(last.pre_stack) = locals[last.depths[1] + 1]

\* C20: for a local index below parameter count + declared local count,
\* local.get, local.set and local.tee in reachable code never hit the fatal
\* underflow and emit local_depth = height + parameter count + local count
\* - idx, with the height before the push or pop of the operator.
C20_LocalDepth ==
    ValidLocalAccess
    => /\ ~panicked
       /\ Len(insts) = last.pre_insts + 1
       /\ insts[Len(insts)].op \in {"GetLocal", "SetLocal", "TeeLocal"}
       /\ insts[Len(insts)].arg
             = last.pre_height + func_type.params + DeclaredLocals - last.depths[1]

\* C21: while reachable = true, every frame on the control stack has an entry
\* height that is at most the current compile-time height, after any sequence
\* of translate_* operations on validated input (call and drop included).
C21_FrameHeightsBelowStack ==
    (reachable /\ validation.ok /\ ~panicked) =>
        \A k \in 1..Len(control_frames) :
            control_frames[k].height <= Len(value_stack)

\* C22: CodeMap::resolve panics for every FuncBody whose range
\* [first, first + len) is not entirely inside the buffer, and does not panic
\* for any handle that alloc of the same map returned earlier.
C22_ResolvePanicsOutOfRange ==
    /\ (cm_last.op \in {"resolve", "resolve_handle"}
          /\ cm_last.body.inst + cm_last.body.len > Len(cm_insts))
       => cm_panicked
    /\ cm_last.op = "resolve" => ~cm_panicked
    /\ (cm_last.op = "resolve_handle"
          /\ \E k \in 1..Len(cm_bodies) : cm_bodies[k].body = cm_last.body)
       => ~cm_panicked

\* C22 witness: a range that starts inside a non-empty buffer and ends outside
\* of it was resolved, after a returned handle had been allocated.
C22_Witness ==
    /\ cm_last.op = "resolve_handle"
    /\ cm_panicked
    /\ cm_bodies # <<>>
    /\ cm_last.body.inst < Len(cm_insts)
    /\ cm_last.body.inst + cm_last.body.len > Len(cm_insts)

\* C23: alloc fails fatally whenever storing the new sequence would make the
\* total number of providers exceed the range of the 16-bit first/len
\* encoding, and every handle it returns satisfies first + len <= number of
\* stored providers, with both fields exact.
C23_AllocFailsBeyondU16 ==
    ar_at.calls = 1
    => /\ ar_at.stored_after > U16Max => ar_at.panics
       /\ ~ar_at.panics
          => /\ ar_at.slice.first + ar_at.slice.len <= ar_at.stored_after
             /\ ar_at.slice.first = ar_at.stored
             /\ ar_at.slice.len = Len(ar_at.registers)

\* C23, amended: alloc of a sequence that is not stored yet fails fatally
\* exactly when the number of providers stored before the call exceeds the
\* 16-bit range or the sequence is longer than the 16-bit range; every handle
\* it returns satisfies first + len <= number of stored providers, with both
\* fields exact.
C23_AllocFailsWhenOffsetBeyondU16 ==
    ar_at.calls = 1
    => /\ ar_at.panics <=> (ar_at.stored > U16Max \/ Len(ar_at.registers) > U16Max)
       /\ ~ar_at.panics
          => /\ ar_at.slice.first + ar_at.slice.len <= ar_at.stored_after
             /\ ar_at.slice.first = ar_at.stored
             /\ ar_at.slice.len = Len(ar_at.registers)

\* C23 witness: a sequence of two providers was stored behind 65534 others
\* without a failure, which makes 65536 providers.
C23_Witness ==
    /\ ar_at.calls = 1
    /\ ~ar_at.panics
    /\ ar_at.stored = U16Max - 1
    /\ ar_at.slice = ExecProviderSlice(U16Max - 1, 2)
    /\ ar_at.stored_after = U16Max + 1

\* C24: translate_else while reachable = false succeeds without emitting an
\* instruction whenever the top frame belongs to an if whose else is still to
\* come (an If frame whose then arm became unreachable, or an Unreachable
\* frame of original kind If), and is fatal when the top frame belongs to a
\* block or a loop.
C24_ElseInDeadCode ==
    (last.op = "else" /\ ~last.reach /\ last.top # NoFrame)
    => /\ (FrameKind(last.top) = "If" /\ last.arm = "then")
          => (~panicked /\ Len(insts) = last.pre_insts)
       /\ FrameKind(last.top) \in {"Block", "Loop"} => panicked

\* C25: in reachable code compute_drop_keep aborts exactly when the current
\* height C does not exceed the entry height H of the target frame or the
\* keep count exceeds C - H; in every other case, keep = C - H included, it
\* returns a DropKeep. Stated for the single call made by br and br_if.
C25_ComputeDropKeepAborts ==
    (last.op \in {"br", "br_if"} /\ last.reach /\ last.height >= 0
        /\ last.depths[1] < Len(control_frames))
    => LET frame == NthBack(control_frames, last.depths[1])
           H == frame.height
           C == last.height
           keep == BranchArity(frame)
       IN  panicked <=> (C <= H \/ keep > C - H)

\* C26: after translate_end has popped a frame (block, loop, if or
\* unreachable, in reachable or unreachable state) and returned, the
\* compile-time height equals the entry height recorded in that frame.
C26_EndRestoresEntryHeight ==
    (last.op = "end" /\ last.top # NoFrame /\ ~panicked)
    => /\ Len(value_stack) = last.top.height
       /\ value_stack = SubSeq(last.pre_stack, 1, last.top.height)

\* C26 witness: the end of an inner frame discarded a value that the frame
\* had left above its entry height.
C26_Witness ==
    /\ last.op = "end"
    /\ ~panicked
    /\ control_frames # <<>>
    /\ last.top.bt.results = 1
    /\ last.pre_height = last.top.height + 1
    /\ Len(value_stack) = last.top.height

\* C27: when translate_end pops the frame of the function body while
\* reachable = true, it appends exactly one Return as the last instruction,
\* whose DropKeep is the one an explicit return translated at the same point
\* would carry (keep = result count of the function, drop including all
\* declared locals and parameters); when reachable = false it appends
\* nothing.
C27_FinalEndReturn ==
    (last.op = "end" /\ last.top # NoFrame /\ control_frames = <<>> /\ ~panicked)
    => IF last.reach
       THEN /\ Len(insts) = last.pre_insts + 1
            /\ insts[Len(insts)].op = "Return"
            /\ insts[Len(insts)].keep = func_type.results
            /\ insts[Len(insts)].drop >= DeclaredLocals + func_type.params
            /\ ~DropKeepReturnPanics(<<last.top>>, TRUE, last.pre_height)
               => insts[Len(insts)]
                     = ReturnInst(DropKeepReturn(<<last.top>>, TRUE, last.pre_height,
                                                 DeclaredLocals, func_type.params))
       ELSE Len(insts) = last.pre_insts

C29_LoopHeaderResolvedAtEntry ==
    /\ (last.op = "loop" /\ last.reach /\ ~panicked)
       => LET header == LastFrame(control_frames).label
          IN  /\ LastFrame(control_frames).kind = "Loop"
              /\ labels[header + 1].pos = last.pre_insts
              /\ Len(insts) = last.pre_insts
              /\ resolve_calls[header + 1] = 1
    /\ \A k \in 1..Len(control_frames) :
          control_frames[k].kind = "Loop"
          => /\ IsResolved(labels, control_frames[k].label)
             /\ labels[control_frames[k].label + 1].relocs = <<>>
    /\ (BranchTranslated /\ last.reach /\ ~panicked)
       => \A n \in 1..Len(last.depths) :
             LET frame == NthBack(control_frames, last.depths[n])
             IN  frame.kind = "Loop"
                 => /\ EmittedArm(n).dst = labels[frame.label + 1].pos
                    /\ EmittedArm(n).dst # InvalidPc
    /\ (last.op = "end" /\ last.top.kind = "Loop")
       => resolve_calls = last.pre_calls
    /\ (last.op = "end" /\ last.top.kind \in {"Block", "If"} /\ ~panicked)
       => /\ labels[last.top.label + 1].pos = last.pre_insts
          /\ resolve_calls[last.top.label + 1] = last.pre_calls[last.top.label + 1] + 1

\* C29 witness: a branch to a loop was emitted with the header position, past
\* an instruction of the loop body.
C29_Witness ==
    /\ last.op = "br"
    /\ last.reach
    /\ ~panicked
    /\ NthBack(control_frames, last.depths[1]).kind = "Loop"
    /\ EmittedArm(1).dst = labels[NthBack(control_frames, last.depths[1]).label + 1].pos
    /\ EmittedArm(1).dst < last.pre_insts

\* C30: a block, loop or if opened while reachable = false, together with
\* its matching else and end, is translated without a fatal error, allocates
\* and resolves no label and appends no instruction; its end only pops the
\* Unreachable frame and restores the height.
C30_DeadRegionsAreInert ==
    /\ (last.op \in {"block", "loop", "if"} /\ ~last.reach /\ validation.ok)
       => /\ ~panicked
          /\ LastFrame(control_frames).kind = "Unreachable"
          /\ Len(labels) = last.pre_labels
          /\ Len(insts) = last.pre_insts
          /\ resolve_calls = last.pre_calls
    /\ (last.op \in {"else", "end"} /\ last.top.kind = "Unreachable" /\ validation.ok)
       => /\ ~panicked
          /\ Len(labels) = last.pre_labels
          /\ Len(insts) = last.pre_insts
          /\ resolve_calls = last.pre_calls
          /\ last.op = "end"
             => Len(value_stack) = last.top.height

\* C31: from_immediate accepts exactly the constant indices K with
\* K < 2^31 - 1 and aborts with a fatal assertion for every larger index;
\* for an accepted K the stored integer is -(K) - 1, with no wrap-around.
C31_FromImmediateBound ==
    pv_last.op = "from_immediate"
    => /\ pv_last.panicked <=> ~(0 <= pv_last.index /\ pv_last.index < I32Max)
       /\ ~pv_last.panicked
          => /\ pv_last.inner = (0 - pv_last.index) - 1
             /\ pv_last.inner < 0
             /\ pv_last.inner >= 0 - I32Max

\* C31 witness: the largest accepted index was encoded as -(2^31 - 1).
C31_Witness ==
    /\ pv_last.op = "from_immediate"
    /\ ~pv_last.panicked
    /\ pv_last.index = I32Max - 1
    /\ pv_last.inner = 0 - I32Max

\* The value type and the instruction of a memory access or comparison
\* operator.
OperandType(op) ==
    IF op \in {"i32_load", "i32_store", "i32_eqz", "i32_eq"} THEN "I32" ELSE "I64"

OwnInstruction(op) ==
    CASE op = "i32_load" -> Inst("I32Load", 0)
      [] op = "i64_load" -> Inst("I64Load", 0)
      [] op = "i64_load_i8" -> Inst("I64Load8S", 0)
      [] op = "i32_store" -> Inst("I32Store", 0)
      [] op = "i64_store" -> Inst("I64Store", 0)
      [] op = "i64_store_i8" -> Inst("I64Store8", 0)
      [] op = "i32_eqz" -> Inst("I32Eqz", 0)
      [] op = "i64_eqz" -> Inst("I64Eqz", 0)
      [] op = "i32_eq" -> Inst("I32Eq", 0)
      [] op = "i64_eq" -> Inst("I64Eq", 0)
      [] op = "u64_lt" -> Inst("I64LtU", 0)

\* The last operator appended exactly the instruction inst.
AppendedExactly(inst) ==
    /\ Len(insts) = last.pre_insts + 1
    /\ insts[Len(insts)] = inst

\* The last operator was translated in reachable code with the entries types
\* on top of the compile-time stack, the last of them topmost.
TranslatedOn(ops, types) ==
    /\ last.op \in ops
    /\ last.reach
    /\ Len(last.pre_stack) >= Len(types)
    /\ \A k \in 1..Len(types) :
          last.pre_stack[Len(last.pre_stack) - Len(types) + k] = types[k]

\* C32: in reachable code, a store operator on a stack with an i32 address
\* directly beneath a value of the stored type succeeds without a fatal
\* assertion, lowers the compile-time height by exactly 2 and appends exactly
\* its store instruction; a load operator on a stack with an i32 address on top
\* replaces the address by the loaded type and appends exactly its load
\* instruction (the memory index being the default one).
C32_LoadStoreShape ==
    /\ (/\ TranslatedOn(StoreOps, <<"I32", OperandType(last.op)>>)
        /\ last.depths = <<DefaultMemoryIndex>>)
           => /\ ~panicked
              /\ Len(value_stack) = last.pre_height - 2
              /\ value_stack = SubSeq(last.pre_stack, 1, last.pre_height - 2)
              /\ AppendedExactly(OwnInstruction(last.op))
    /\ (/\ TranslatedOn(LoadOps, <<"I32">>)
        /\ last.depths = <<DefaultMemoryIndex>>)
           => /\ ~panicked
              /\ value_stack = Append(SubSeq(last.pre_stack, 1, last.pre_height - 1),
                                      OperandType(last.op))
              /\ AppendedExactly(OwnInstruction(last.op))

\* C33: in reachable code every comparison appends exactly the instruction it
\* is parameterized with (translate_i32_eqz I32Eqz, translate_i64_eqz I64Eqz,
\* every binary comparison its own) and replaces its operand, or its two
\* operands, of the input type by one i32.
C33_ComparisonShape ==
    /\ (TranslatedOn(UnaryCmpOps, <<OperandType(last.op)>>) /\ ~panicked)
           => /\ value_stack = Append(SubSeq(last.pre_stack, 1, last.pre_height - 1),
                                      "I32")
              /\ AppendedExactly(OwnInstruction(last.op))
    /\ (/\ TranslatedOn(BinaryCmpOps, <<OperandType(last.op), OperandType(last.op)>>)
        /\ ~panicked)
           => /\ value_stack = Append(SubSeq(last.pre_stack, 1, last.pre_height - 2),
                                      "I32")
              /\ AppendedExactly(OwnInstruction(last.op))

\* C34: the depth of the control stack is 1 + (number of block, loop and if
\* operators translated) - (number of end operators translated): a block, loop
\* or if pushes exactly one frame in reachable and in unreachable code, an end
\* pops exactly one, else and every other operator leave the depth as it is;
\* an end on an empty control stack is fatal.
C34_ControlStackDepth ==
    /\ ~panicked =>
          Len(control_frames) = 1 + nesting.opened - nesting.ended
    /\ (last.op = "end" /\ last.top = NoFrame) => panicked

\* A block was opened in dead code and has pushed the second frame.
C34_Witness ==
    /\ ~panicked
    /\ last.op = "block"
    /\ ~last.reach
    /\ nesting.opened = 1
    /\ nesting.ended = 0
    /\ Len(control_frames) = 2

\* C35: the frames of kind Unreachable form a contiguous suffix at the top of
\* the control stack (no reachable frame lies above an Unreachable one), and
\* while reachable = true the control stack holds no Unreachable frame, so a
\* branch translated in reachable code never targets one.
C35_UnreachableFramesOnTop ==
    ~panicked =>
        /\ \A j, k \in 1..Len(control_frames) :
              (j < k /\ control_frames[j].kind = "Unreachable")
                  => control_frames[k].kind = "Unreachable"
        /\ reachable =>
              \A k \in 1..Len(control_frames) : control_frames[k].kind # "Unreachable"

\* Two Unreachable frames lie on top of the function body frame.
C35_Witness ==
    /\ ~panicked
    /\ ~reachable
    /\ Len(control_frames) = 3
    /\ control_frames[1].kind # "Unreachable"
    /\ control_frames[2].kind = "Unreachable"
    /\ control_frames[3].kind = "Unreachable"

\* C36: immediately after translate_else in reachable code, the compile-time
\* height equals the entry height recorded in the if frame (validated input).
C36_ElseRestoresEntryHeight ==
    (last.op = "else" /\ last.reach /\ validation.ok /\ ~panicked) =>
        Len(value_stack) = last.top.height

\* C37: after translate_call of a callee with P parameters and R results in
\* reachable code the compile-time height is the previous height - P + R;
\* after translate_call_indirect it is the previous height - 1 - P + R
\* (validated input).
C37_CallStackEffect ==
    /\ (last.op = "call" /\ last.reach /\ validation.ok /\ ~panicked) =>
          Len(value_stack) = last.pre_height - last.sig.params + last.sig.results
    /\ (last.op = "call_indirect" /\ last.reach /\ validation.ok /\ ~panicked) =>
          Len(value_stack) = last.pre_height - 1 - last.sig.params + last.sig.results

\* The operators of structured control flow.
ControlOps ==
    {"block", "loop", "if", "else", "end", "br", "br_if", "br_table", "return",
     "unreachable"}

\* C38: in reachable code every operator that is not a control operator and
\* changes the compile-time height appends at least one instruction in the
\* same step; in particular translate_drop appends a drop instruction.
C38_HeightChangeEmitsInstruction ==
    /\ (/\ last.op \notin ControlOps \cup {"new"}
        /\ last.reach
        /\ ~panicked
        /\ Len(value_stack) # last.pre_height)
           => Len(insts) > last.pre_insts
    /\ (last.op = "drop" /\ last.reach /\ ~panicked)
           => AppendedExactly(Inst("Drop", 0))

\* The operands on the compile-time stack above the parameters, before the
\* last operator.
OperandsBefore == last.pre_height - func_type.params

\* C39: with P parameters, L declared locals and h operands above them, the
\* local_depth of every valid index idx (0 <= idx < P + L) is h + P + L - idx
\* and lies between 1 and P + L + h; distinct indices have distinct depths and
\* the depth of an index grows by one with every operand pushed (validated
\* input, reachable code).
C39_LocalDepthRange ==
    LET P == func_type.params
        L == DeclaredLocals
        h == OperandsBefore
        depth(height, idx) == RelativeLocalDepth(height, Len(locals), P, idx)
    IN  /\ (ValidLocalAccess /\ validation.ok /\ ~panicked) =>
              /\ insts[Len(insts)].arg = h + P + L - last.depths[1]
              /\ insts[Len(insts)].arg >= 1
              /\ insts[Len(insts)].arg <= P + L + h
        /\ \A i, j \in 0..(P + L - 1) :
              i # j => depth(Len(value_stack), i) # depth(Len(value_stack), j)
        /\ \A i \in 0..(P + L - 1) :
              depth(Len(value_stack) + 1, i) = depth(Len(value_stack), i) + 1

\* The sequence of the alloc call that this step makes was allocated by an
\* earlier call.
AllocatedBefore ==
    /\ Len(ar_calls') = Len(ar_calls) + 1
    /\ \E i \in 1..Len(ar_calls) :
          ar_calls[i].registers = ar_calls'[Len(ar_calls')].registers

\* C40: an alloc whose sequence was allocated before leaves the provider
\* buffer and the dedup map unchanged; every alloc, hit or miss, leaves the
\* sequence that resolve yields for every handle returned earlier unchanged;
\* the handle ExecProviderSlice::empty() resolves to the empty sequence in
\* every state of the arena.
C40_AllocFrame ==
    [][/\ AllocatedBefore => (ar_providers' = ar_providers /\ ar_dedup' = ar_dedup)
       /\ \A i \in 1..Len(ar_calls) :
             /\ ~ArenaResolvePanics(ar_providers', ar_calls[i].slice)
             /\ ArenaResolve(ar_providers', ar_calls[i].slice)
                   = ArenaResolve(ar_providers, ar_calls[i].slice)
       /\ ~ArenaResolvePanics(ar_providers, ExecProviderSliceEmpty)
       /\ ArenaResolve(ar_providers, ExecProviderSliceEmpty) = <<>>
       /\ ~ArenaResolvePanics(ar_providers', ExecProviderSliceEmpty)
       /\ ArenaResolve(ar_providers', ExecProviderSliceEmpty) = <<>>]_vars

\* C40 witness: a sequence of two providers was allocated, then another
\* sequence, then the first one again, which left the buffer as it was.
C40_Witness ==
    /\ Len(ar_calls) = 3
    /\ ar_calls[3].hit
    /\ ar_calls[3].registers = ar_calls[1].registers
    /\ ~ar_calls[2].hit
    /\ Len(ar_calls[1].registers) = 2
    /\ Len(ar_providers)
          = Len(ar_calls[1].registers) + Len(ar_calls[2].registers)
    /\ ar_providers # <<>>

====
